---------------------------- MODULE Spec2Model ----------------------------
(***************************************************************************)
(* A model of the fixg FIX 4.4 session engine: the gateway's per-client    *)
(* task and session tasks (src/src/gateway.rs), the client routing task    *)
(* (src/src/client.rs, src/src/session.rs) and the file message store      *)
(* with its writer task (src/src/storage.rs).                              *)
(*                                                                         *)
(* Abstractions.  A frame on the wire is the record                        *)
(* [t35, fields, valid]: the MsgType code, the tag -> value map of the     *)
(* other body fields and whether checksum and body length verify.  A       *)
(* decoded FixMessage is [msg_type, fields].  Numeric tag values are       *)
(* integers, -1 standing for a value that does not parse as u32.  An       *)
(* Option is a sequence of length at most one.  Time is counted in whole   *)
(* seconds.                                                                *)
(***************************************************************************)
EXTENDS Integers, Sequences, FiniteSets, TLC

(***************************************************************************)
(* Bounds of the model.                                                    *)
(***************************************************************************)
\* inbound frames the peer sends in the inbound-heavy profile
MaxIn == 2
\* payloads the application submits in the outbound-heavy profile
MaxSub == 3
\* seconds the clock advances in the timer-heavy profile
MaxTime == 3
\* largest MsgSeqNum the peer puts in tag 34
MaxSeq == 3
\* capacity of each bounded channel of the outbound path in the model
ChanCap == 2
\* batch threshold of the store writer in the model
BatchMax == 2

(***************************************************************************)
(* Program constants.                                                      *)
(***************************************************************************)
\* gateway.rs:118  acceptor's hb_interval before a Logon sets it
DefaultHbSecs == 30
\* gateway.rs:123  acceptor tick period, seconds
AcceptorTickSecs == 1
\* the heartbeat interval the initiating client configures (scenario S2: hb = 1)
ConfigHbSecs == 1

Some(v) == <<v>>
None == <<>>
IsSome(o) == Len(o) = 1
Unwrap(o) == o[1]

EmptyFields == <<>>

RECURSIVE SeqSum(_)
SeqSum(s) == IF s = <<>> THEN 0 ELSE Head(s) + SeqSum(Tail(s))

Range(s) == {s[i] : i \in DOMAIN s}

IsPrefix(p, s) == Len(p) <= Len(s) /\ SubSeq(s, 1, Len(p)) = p

(***************************************************************************)
(* protocol.rs: message types, FixMessage, encode / decode as they act on  *)
(* the tag -> value map.                                                   *)
(***************************************************************************)
Logon         == [tag |-> "Logon", code |-> ""]
Heartbeat     == [tag |-> "Heartbeat", code |-> ""]
TestRequest   == [tag |-> "TestRequest", code |-> ""]
Logout        == [tag |-> "Logout", code |-> ""]
ResendRequest == [tag |-> "ResendRequest", code |-> ""]
SequenceReset == [tag |-> "SequenceReset", code |-> ""]
Unknown(s)    == [tag |-> "Unknown", code |-> s]

msg_type_as_str(mt) ==
    CASE mt = Logon -> "A"
      [] mt = Heartbeat -> "0"
      [] mt = TestRequest -> "1"
      [] mt = Logout -> "5"
      [] mt = ResendRequest -> "2"
      [] mt = SequenceReset -> "4"
      [] OTHER -> "?"

parse_msg_type(s) ==
    CASE s = "A" -> Logon
      [] s = "0" -> Heartbeat
      [] s = "1" -> TestRequest
      [] s = "5" -> Logout
      [] s = "2" -> ResendRequest
      [] s = "4" -> SequenceReset
      [] OTHER -> Unknown(s)

FixMessage_new(mt) == [msg_type |-> mt, fields |-> EmptyFields]

set_field(m, tag, value) == [m EXCEPT !.fields = (tag :> value) @@ m.fields]

get(m, tag) == IF tag \in DOMAIN m.fields THEN Some(m.fields[tag]) ELSE None

\* s.parse::<u32>().ok() on an optional tag value
parse_u32(o) == IF IsSome(o) /\ Unwrap(o) >= 0 THEN o ELSE None

unwrap_or(o, d) == IF IsSome(o) THEN Unwrap(o) ELSE d

encode(m) == [t35 |-> msg_type_as_str(m.msg_type), fields |-> m.fields, valid |-> TRUE]

decode(b) ==
    IF b.valid
    THEN [ok |-> TRUE, msg |-> [msg_type |-> parse_msg_type(b.t35), fields |-> b.fields]]
    ELSE [ok |-> FALSE, msg |-> FixMessage_new(Unknown(""))]

\* a Logon without its heartbeat interval
build_logon_no_hb(hb, sender, target) ==
    set_field(set_field(FixMessage_new(Logon), 49, sender), 56, target)

build_logon(hb, sender, target) ==
    set_field(set_field(set_field(FixMessage_new(Logon), 49, sender), 56, target), 108, hb)

\* a Heartbeat that never echoes the TestReqID
build_heartbeat_no_echo(test_req_id, sender, target) ==
    set_field(set_field(FixMessage_new(Heartbeat), 49, sender), 56, target)

build_heartbeat(test_req_id, sender, target) ==
    LET m == set_field(set_field(FixMessage_new(Heartbeat), 49, sender), 56, target)
    IN  IF IsSome(test_req_id) THEN set_field(m, 112, Unwrap(test_req_id)) ELSE m

build_test_request(id, sender, target) ==
    set_field(set_field(set_field(FixMessage_new(TestRequest), 49, sender), 56, target), 112, id)

build_logout(text, sender, target) ==
    LET m == set_field(set_field(FixMessage_new(Logout), 49, sender), 56, target)
    IN  IF IsSome(text) THEN set_field(m, 58, Unwrap(text)) ELSE m

\* build.rs: AdminMessage::into_fix for the variants the model submits
into_fix(a, sender, target) ==
    LET m == CASE a.kind = "Heartbeat" ->
                    IF IsSome(a.test_req_id)
                    THEN set_field(FixMessage_new(Heartbeat), 112, Unwrap(a.test_req_id))
                    ELSE FixMessage_new(Heartbeat)
               [] a.kind = "TestRequest" ->
                    set_field(FixMessage_new(TestRequest), 112, a.test_req_id)
               [] OTHER ->
                    IF IsSome(a.text)
                    THEN set_field(FixMessage_new(Logout), 58, Unwrap(a.text))
                    ELSE FixMessage_new(Logout)
    IN  set_field(set_field(m, 49, sender), 56, target)

(***************************************************************************)
(* State.                                                                  *)
(***************************************************************************)
VARIABLES
    \* gateway (gateway.rs:60-66)
    clients,              \* Vec of registered client event senders, by client id
    next_session_id,      \* AtomicU64
    \* the session (one is modelled): who created it and where its task is
    role,                 \* "none" | "initiator" | "acceptor"
    session_id,
    owner,                \* the client whose per-client task dialled it (0: none)
    pc,                   \* session task: "none" | "start" | "loop" | "done"
    client_pc,            \* per-client task: "idle" | "spawned" (before it sends SessionActive)
    has_handle,           \* FixClient::initiate has returned the Session handle
    \* session task locals (gateway.rs:114-121, 342-347)
    out_seq_num,
    in_seq_num,
    last_rx,
    test_req_outstanding,
    hb_interval,
    sender_comp,
    target_comp,
    read_buf,             \* frames extracted from the socket, not yet consumed
    next_tick,            \* instant at which the interval next completes
    \* socket
    sock_rx,              \* frames the peer has sent, not yet read
    sock_eof,             \* the peer has closed its write side
    sock_err,             \* the next read fails
    wire,                 \* frames written to the socket, in order
    \* channels
    app_out_rx,           \* the session inbox (OutboundPayload)
    sess_chan,            \* Session::send_tx -> routing task
    cmd_chan,             \* client command channel -> per-client task
    events,               \* per client: events sent to its mailbox, in order
    \* store (storage.rs)
    store_chan,           \* records enqueued by append, not yet received by the writer
    queue,                \* the writer's VecDeque
    data_file,            \* per stem: the lines of <stem>.jsonl
    idx_file,             \* per stem: the lines of <stem>.idx, <<seq, offset>>
    \* environment
    now,                  \* seconds
    profile,              \* the input budget drawn at Init
    n_in,                 \* frames the peer has sent
    submitted,            \* payloads the application submitted through the Session handle
    rx_hist,              \* history: one entry per frame the session task extracted
    \* the store driven on its own (SpecStore)
    appended,             \* history: the records handed to append, in order
    loaded,               \* the call of load_outbound_range made, if any
    \* the codec and the framer driven on their own (SpecCodec, SpecFramer)
    codec,                \* the input drawn and what the functions returned for it
    \* the socket read path driven byte by byte (SpecReader)
    rd,                   \* the reading session task's locals, its socket and the clock
    \* the gateway's tasks driven with several sessions (SpecGateway)
    gw,                   \* the root task, the accept loop, the clients and the sessions
    \* the store under several keys, connections and I/O errors (SpecJournal)
    jn,                   \* the connections' counters and the history of their appends
    \* the client library's tasks with several sessions (SpecClient)
    cl                    \* the event loop, the routing tasks, the channels, the callbacks

vars == <<clients, next_session_id, role, session_id, owner, pc, client_pc, has_handle,
          out_seq_num, in_seq_num, last_rx, test_req_outstanding, hb_interval,
          sender_comp, target_comp, read_buf, next_tick, sock_rx, sock_eof, sock_err,
          wire, app_out_rx, sess_chan, cmd_chan, events, store_chan, queue, data_file,
          idx_file, now, profile, n_in, submitted, rx_hist, appended, loaded, codec, rd,
          gw, jn, cl>>

other_vars == <<appended, loaded, codec, rd, gw, jn, cl>>
gateway_vars == <<clients, next_session_id>>
store_vars == <<store_chan, queue, data_file, idx_file>>
chain_vars == <<sess_chan, cmd_chan, submitted>>
sock_in_vars == <<sock_rx, sock_eof, sock_err, n_in>>

\* clients the model registers
MaxClients == 2
Clients == 1..MaxClients

\* the initiating client's SessionConfig
ConfigSender == "I"
ConfigTarget == "A"

\* config.rs:89-92: the configured AuthStrategy, here one accepting sender "I" only
validate_logon(sender, target) == sender = "I"

(***************************************************************************)
(* storage.rs                                                              *)
(***************************************************************************)
\* storage.rs:37-41, on the comp ids of the model
sanitize(s) == CASE s = "I" -> "I" [] s = "A" -> "A" [] OTHER -> "_"

file_stem(key) == <<sanitize(key.sender_comp_id), "__", sanitize(key.target_comp_id)>>

sess_key == [sender_comp_id |-> ConfigSender, target_comp_id |-> ConfigTarget]

\* the keys of the sessions that share the gateway's store: the configured one and two
\* whose sender ids are one character that is not alphanumeric
DotKey == [sender_comp_id |-> ".", target_comp_id |-> ConfigTarget]
UnderscoreKey == [sender_comp_id |-> "_", target_comp_id |-> ConfigTarget]
JournalKeys == {sess_key, DotKey, UnderscoreKey}

Stems == {file_stem(k) : k \in JournalKeys}

\* base64 STANDARD encode / decode: a tagged copy, so encoded and raw differ
b64_encode(payload) == <<"b64", payload>>
b64_decode(s) == s[2]

\* the bytes of one serde_json line and its newline
line_len(rec) ==
    16 + Cardinality(DOMAIN b64_decode(rec.payload_b64).fields)
       + (IF rec.seq = None THEN 4 ELSE 1)

\* storage.rs:375-391 with append (369-373): the record enters the writer's channel
append_record(chan, key, direction, seq, ts_millis, payload) ==
    Append(chan, [session |-> key, direction |-> direction, seq |-> seq,
                  ts_millis |-> ts_millis, payload_b64 |-> b64_encode(payload)])

\* metadata(&data_path).len()
file_len(lines) == SeqSum([i \in DOMAIN lines |-> line_len(lines[i])])

\* storage.rs:319-349: one iteration of flush_batch's loop, on the files
flush_one(files, rec) ==
    LET stem == file_stem(rec.session)
        offset == file_len(files.data[stem])
        data1 == [files.data EXCEPT ![stem] = Append(@, rec)]
        idx1 == IF rec.direction = "Outbound" /\ IsSome(rec.seq)
                THEN [files.idx EXCEPT ![stem] = Append(@, <<Unwrap(rec.seq), offset>>)]
                ELSE files.idx
    IN  [data |-> data1, idx |-> idx1]

\* a flush that takes the queue from its back
RECURSIVE flush_batch_from_back(_, _)
flush_batch_from_back(files, q) ==
    IF q = <<>> THEN files
    ELSE flush_one(flush_batch_from_back(files, Tail(q)), Head(q))

RECURSIVE flush_batch(_, _)
flush_batch(files, q) ==
    IF q = <<>> THEN files ELSE flush_batch(flush_one(files, Head(q)), Tail(q))

\* offsets.sort_by_key(|(s, _)| *s): a stable sort
RECURSIVE insert_by_seq(_, _)
insert_by_seq(sorted, e) ==
    IF sorted = <<>> THEN <<e>>
    ELSE IF e[1] < Head(sorted)[1] THEN <<e>> \o sorted
         ELSE <<Head(sorted)>> \o insert_by_seq(Tail(sorted), e)

RECURSIVE sort_by_key(_)
sort_by_key(s) ==
    IF s = <<>> THEN <<>>
    ELSE insert_by_seq(sort_by_key(SubSeq(s, 1, Len(s) - 1)), s[Len(s)])

\* seek(of) then read_line: the line that starts at byte of, if one does
read_line_at(lines, of) ==
    LET starts == {i \in DOMAIN lines : file_len(SubSeq(lines, 1, i - 1)) = of}
    IN  IF starts = {} THEN None ELSE Some(lines[CHOOSE i \in starts : TRUE])

\* storage.rs:393-445
load_outbound_range(key, begin_seq, end_seq) ==
    LET stem == file_stem(key)
        idx == idx_file[stem]
        offsets == sort_by_key(SelectSeq(idx, LAMBDA e : e[1] >= begin_seq /\ e[1] <= end_seq))
        lines == [i \in DOMAIN offsets |-> read_line_at(data_file[stem], offsets[i][2])]
        found == SelectSeq(lines, IsSome)
    IN  [i \in DOMAIN found |-> b64_decode(Unwrap(found[i]).payload_b64)]

\* storage.rs:447-471: the largest seq of the index, none when the index file is missing
\* or has no line
RECURSIVE max_seq(_, _)
max_seq(lines, last) ==
    IF lines = <<>> THEN last
    ELSE max_seq(Tail(lines),
                 Some(IF IsSome(last) /\ Unwrap(last) >= Head(lines)[1]
                      THEN Unwrap(last) ELSE Head(lines)[1]))

last_outbound_seq(key) ==
    IF file_stem(key) \notin DOMAIN idx_file THEN None
    ELSE max_seq(idx_file[file_stem(key)], None)

(***************************************************************************)
(* Session tasks (gateway.rs).  The handlers act on the record M of what   *)
(* a session task reads and writes: its locals, the socket's write side,   *)
(* the subscribers' mailboxes and the store's channel.                     *)
(***************************************************************************)
Machine ==
    [out_seq_num |-> out_seq_num, in_seq_num |-> in_seq_num, last_rx |-> last_rx,
     test_req_outstanding |-> test_req_outstanding, hb_interval |-> hb_interval,
     sender_comp |-> sender_comp, target_comp |-> target_comp,
     wire |-> wire, events |-> events, store_chan |-> store_chan, pc |-> pc]

Commit(M) ==
    /\ out_seq_num' = M.out_seq_num
    /\ in_seq_num' = M.in_seq_num
    /\ last_rx' = M.last_rx
    /\ test_req_outstanding' = M.test_req_outstanding
    /\ hb_interval' = M.hb_interval
    /\ sender_comp' = M.sender_comp
    /\ target_comp' = M.target_comp
    /\ wire' = M.wire
    /\ events' = M.events
    /\ store_chan' = M.store_chan
    /\ pc' = M.pc

SessionActive == [type |-> "SessionActive", session_id |-> session_id]
InboundMessage(msg_type, payload) ==
    [type |-> "InboundMessage", session_id |-> session_id, msg_type |-> msg_type,
     payload |-> payload]
Disconnected(reason) ==
    [type |-> "Disconnected", session_id |-> session_id, reason |-> reason]

\* gateway.rs:416-418 (initiator: to_client_tx_reader, the initiating client's mailbox)
\* and gateway.rs:150-153 (acceptor: every sender in clients)
Subscribers == IF role = "initiator" THEN {owner} ELSE Range(clients)

emit(M, ev) ==
    [M EXCEPT !.events = [c \in Clients |->
                            IF c \in Subscribers THEN Append(@[c], ev) ELSE @[c]]]

\* write_half.write_all(&bytes)
write_all(M, bytes) == [M EXCEPT !.wire = Append(@, bytes)]

\* store.append_bytes(&sess_key, direction, seq, now_millis(), bytes)
journal(M, direction, seq, bytes) ==
    [M EXCEPT !.store_chan = append_record(@, sess_key, direction, seq, now, bytes)]

\* stamping that forgets to increment out_seq_num
stamp_send_journal_no_increment(M, fix) ==
    LET seq_for_store == M.out_seq_num
        bytes == encode(set_field(fix, 34, seq_for_store))
    IN  journal(write_all(M, bytes), "Outbound", Some(seq_for_store), bytes)

\* gateway.rs:400-405 and its repeats (451-456, 478-483, 526-531, 536-541):
\* set 34 from out_seq_num, increment, encode, write, journal with the seq
stamp_send_journal(M, fix) ==
    LET seq_for_store == M.out_seq_num
        bytes == encode(set_field(fix, 34, seq_for_store))
    IN  journal(write_all([M EXCEPT !.out_seq_num = @ + 1], bytes),
                "Outbound", Some(seq_for_store), bytes)

\* gateway.rs:139-142 and its repeats (175-177, 187-189, 199-201, 205-207, 254-256,
\* 261-263): the acceptor stamps and writes, and has no store
stamp_send(M, fix) ==
    write_all([M EXCEPT !.out_seq_num = @ + 1], encode(set_field(fix, 34, M.out_seq_num)))

TestReqId(n) == <<"TR", n>>

\* a retransmission that stamps the chunk anew
resend_one_renumbered(b) ==
    LET d == decode(b)
    IN  IF d.ok THEN encode(set_field(set_field(set_field(d.msg, 43, "Y"), 122, now), 34, 0))
        ELSE b

\* gateway.rs:462-472: the retransmission of the loaded chunks
resend_one(b) ==
    LET d == decode(b)
    IN  IF d.ok THEN encode(set_field(set_field(d.msg, 43, "Y"), 122, now)) ELSE b

\* gateway.rs:424-503: the body of the initiator's while-let loop for one frame
on_frame_initiator(M0, msg_bytes) ==
    LET M1 == [M0 EXCEPT !.last_rx = now]
        d == decode(msg_bytes)
        msg == d.msg
        inbound_seq == parse_u32(get(msg, 34))
        M2 == IF IsSome(inbound_seq) THEN [M1 EXCEPT !.in_seq_num = Unwrap(inbound_seq)] ELSE M1
        M3 == journal(M2, "Inbound", inbound_seq, msg_bytes)
        forward(M) == emit(M, InboundMessage(msg_type_as_str(msg.msg_type), msg_bytes))
    IN  IF ~d.ok
        THEN [m |-> emit(M1, Disconnected("ProtocolError")), brk |-> TRUE]
        ELSE CASE msg.msg_type = Logon ->
                    [m |-> forward(emit(M3, SessionActive)), brk |-> FALSE]
               [] msg.msg_type = Heartbeat ->
                    [m |-> forward(IF IsSome(get(msg, 112))
                                      /\ M3.test_req_outstanding = get(msg, 112)
                                   THEN [M3 EXCEPT !.test_req_outstanding = None]
                                   ELSE M3),
                     brk |-> FALSE]
               [] msg.msg_type = TestRequest ->
                    [m |-> forward(stamp_send_journal(M3,
                                build_heartbeat(get(msg, 112), ConfigSender, ConfigTarget))),
                     brk |-> FALSE]
               [] msg.msg_type = ResendRequest ->
                    LET begin == unwrap_or(parse_u32(get(msg, 7)), 1)
                        end == unwrap_or(parse_u32(get(msg, 16)), M3.in_seq_num)
                        chunks == load_outbound_range(sess_key, begin, end)
                    IN  [m |-> forward([M3 EXCEPT !.wire =
                                   @ \o [i \in DOMAIN chunks |-> resend_one(chunks[i])]]),
                         brk |-> FALSE]
               [] msg.msg_type = Logout ->
                    [m |-> emit(stamp_send_journal(M3,
                                    build_logout(None, ConfigSender, ConfigTarget)),
                                Disconnected("ApplicationRequested")),
                     brk |-> TRUE]
               [] OTHER ->
                    [m |-> forward(M3), brk |-> FALSE]

\* gateway.rs:158-230: the body of the acceptor's while-let loop for one frame
on_frame_acceptor(M0, msg_bytes) ==
    LET M1 == [M0 EXCEPT !.last_rx = now]
        d == decode(msg_bytes)
        msg == d.msg
        seq_val == parse_u32(get(msg, 34))
        M2 == IF IsSome(seq_val) THEN [M1 EXCEPT !.in_seq_num = Unwrap(seq_val)] ELSE M1
        forward(M) == emit(M, InboundMessage(msg_type_as_str(msg.msg_type), msg_bytes))
    IN  IF ~d.ok
        THEN [m |-> emit(M1, Disconnected("ProtocolError")), brk |-> TRUE]
        ELSE CASE msg.msg_type = Logon ->
                    LET secs == parse_u32(get(msg, 108))
                        M3 == [M2 EXCEPT
                                 !.hb_interval = IF IsSome(secs) THEN Unwrap(secs) ELSE @,
                                 !.sender_comp = unwrap_or(get(msg, 49), @),
                                 !.target_comp = unwrap_or(get(msg, 56), @)]
                    IN  IF ~validate_logon(M3.sender_comp, M3.target_comp)
                        THEN [m |-> emit(stamp_send(M3,
                                            build_logout(Some("Logon rejected"),
                                                         M3.target_comp, M3.sender_comp)),
                                         Disconnected("ApplicationRequested")),
                              brk |-> TRUE]
                        ELSE [m |-> forward(emit(stamp_send(M3,
                                            build_logon(M3.hb_interval,
                                                        M3.target_comp, M3.sender_comp)),
                                         SessionActive)),
                              brk |-> FALSE]
               [] msg.msg_type = TestRequest ->
                    [m |-> forward(stamp_send(M2,
                                build_heartbeat(get(msg, 112), M2.target_comp, M2.sender_comp))),
                     brk |-> FALSE]
               [] msg.msg_type = Logout ->
                    [m |-> emit(stamp_send(M2, build_logout(None, M2.target_comp, M2.sender_comp)),
                                Disconnected("ApplicationRequested")),
                     brk |-> TRUE]
               [] OTHER ->
                    [m |-> forward(M2), brk |-> FALSE]

on_frame(M, b) == IF role = "initiator" THEN on_frame_initiator(M, b) ELSE on_frame_acceptor(M, b)

\* one entry of rx_hist: the frame and what handling it changed
HistEntry(M, r, b) ==
    [bytes |-> b, pre_in |-> M.in_seq_num, post_in |-> r.m.in_seq_num,
     wpos |-> Len(M.wire), wend |-> Len(r.m.wire),
     epos |-> [c \in Clients |-> Len(M.events[c])],
     eend |-> [c \in Clients |-> Len(r.m.events[c])],
     subs |-> Subscribers, brk |-> r.brk,
     pre_out |-> M.out_seq_num, post_out |-> r.m.out_seq_num,
     pre_tr |-> M.test_req_outstanding, post_tr |-> r.m.test_req_outstanding,
     jn_out |-> Len(SelectSeq(SubSeq(r.m.store_chan, Len(M.store_chan) + 1,
                                     Len(r.m.store_chan)),
                              LAMBDA rec : rec.direction = "Outbound"))]

\* gateway.rs:423 / 157: while let Some(msg_bytes) = try_extract_one(&mut read_buf),
\* left by a break in the body
RECURSIVE drain(_, _, _)
drain(M, buf, hist) ==
    IF buf = <<>> THEN [m |-> M, buf |-> buf, hist |-> hist]
    ELSE LET r == on_frame(M, Head(buf))
             h == Append(hist, HistEntry(M, r, Head(buf)))
         IN  IF r.brk THEN [m |-> r.m, buf |-> Tail(buf), hist |-> h]
             ELSE drain(r.m, Tail(buf), h)

\* gateway.rs:391-411: the initiator's inbox branch for one payload
on_payload_initiator(M, payload) ==
    IF payload.kind = "Raw"
    THEN journal(write_all(M, payload.bytes), "Outbound", None, payload.bytes)
    ELSE stamp_send_journal(M, into_fix(payload.msg, ConfigSender, ConfigTarget))

\* gateway.rs:131-146: the acceptor's inbox branch for one payload
on_payload_acceptor(M, payload) ==
    IF payload.kind = "Raw"
    THEN write_all(M, payload.bytes)
    ELSE stamp_send(M, into_fix(payload.msg, M.target_comp, M.sender_comp))

\* gateway.rs:515-543: the initiator's timer branch
on_tick_initiator(M) ==
    LET idle == now - M.last_rx
    IN  IF idle >= M.hb_interval * 3
        THEN [emit(M, Disconnected("Timeout")) EXCEPT !.pc = "done"]
        ELSE IF idle >= M.hb_interval * 2
        THEN IF M.test_req_outstanding = None
             THEN [stamp_send_journal(M,
                       build_test_request(TestReqId(M.out_seq_num), ConfigSender, ConfigTarget))
                   EXCEPT !.test_req_outstanding = Some(TestReqId(M.out_seq_num))]
             ELSE M
        ELSE IF idle >= M.hb_interval
        THEN stamp_send_journal(M, build_heartbeat(None, ConfigSender, ConfigTarget))
        ELSE M

\* gateway.rs:242-265: the acceptor's timer branch
on_tick_acceptor(M) ==
    LET idle == now - M.last_rx
    IN  IF idle >= M.hb_interval * 3
        THEN [emit(M, Disconnected("Timeout")) EXCEPT !.pc = "done"]
        ELSE IF idle >= M.hb_interval * 2
        THEN IF M.test_req_outstanding = None
             THEN [stamp_send(M,
                       build_test_request(TestReqId(M.out_seq_num), M.target_comp, M.sender_comp))
                   EXCEPT !.test_req_outstanding = Some(TestReqId(M.out_seq_num))]
             ELSE M
        ELSE IF idle >= M.hb_interval
        THEN stamp_send(M, build_heartbeat(None, M.target_comp, M.sender_comp))
        ELSE M

(***************************************************************************)
(* The inputs of the model.                                                *)
(***************************************************************************)
Profiles ==
    { [in |-> MaxIn, sub |-> 0, time |-> 0],
      [in |-> 0, sub |-> MaxSub, time |-> 0],
      [in |-> 1, sub |-> 0, time |-> MaxTime],
      [in |-> 0, sub |-> 2, time |-> 1] }

PeerSeqs == 1..MaxSeq

PeerFrame(t35, flds) == [t35 |-> t35, fields |-> flds, valid |-> TRUE]

PeerFrames ==
    {PeerFrame("A", (34 :> s) @@ (49 :> "I") @@ (56 :> "A") @@ (108 :> ConfigHbSecs)) :
        s \in 1..2}
    \cup {PeerFrame("A", (34 :> 1) @@ (49 :> "X") @@ (56 :> "A") @@ (108 :> ConfigHbSecs))}
    \cup {PeerFrame("A", (34 :> 1) @@ (49 :> "I") @@ (56 :> "A") @@ (108 :> ConfigHbSecs + 1))}
    \cup {PeerFrame("0", (34 :> 2)), PeerFrame("0", (34 :> 2) @@ (112 :> TestReqId(2)))}
    \cup {PeerFrame("1", (34 :> 2) @@ (112 :> <<"P", 1>>))}
    \cup {PeerFrame("2", (34 :> 2) @@ (7 :> 1) @@ (16 :> e)) : e \in 1..2}
    \cup {PeerFrame("4", (34 :> 2) @@ (36 :> n) @@ (123 :> "Y")) : n \in {1, MaxSeq + 1}}
    \cup {PeerFrame("5", (34 :> 2))}
    \cup {PeerFrame("D", (34 :> s)) : s \in PeerSeqs}
    \cup {PeerFrame("D", (34 :> 1) @@ (43 :> "Y"))}
    \cup {[t35 |-> "D", fields |-> (34 :> 1), valid |-> FALSE]}

\* what the application submits as its k-th payload
Payloads(k) ==
    { [kind |-> "Raw", bytes |-> PeerFrame("D", (11 :> k))],
      [kind |-> "Admin", msg |-> [kind |-> "TestRequest", test_req_id |-> <<"U", k>>]] }

(***************************************************************************)
(* Init and the actions.                                                   *)
(***************************************************************************)
InitQuiet ==
    /\ clients = <<>>
    /\ next_session_id = 0
    /\ role = "none"
    /\ session_id = 0
    /\ owner = 0
    /\ pc = "none"
    /\ client_pc = "idle"
    /\ has_handle = FALSE
    /\ out_seq_num = 1
    /\ in_seq_num = 0
    /\ last_rx = 0
    /\ test_req_outstanding = None
    /\ hb_interval = 0
    /\ sender_comp = ""
    /\ target_comp = ""
    /\ read_buf = <<>>
    /\ next_tick = 0
    /\ sock_rx = <<>>
    /\ sock_eof = FALSE
    /\ sock_err = FALSE
    /\ wire = <<>>
    /\ app_out_rx = <<>>
    /\ sess_chan = <<>>
    /\ cmd_chan = <<>>
    /\ events = [c \in Clients |-> <<>>]
    /\ store_chan = <<>>
    /\ queue = <<>>
    /\ data_file = [st \in Stems |-> <<>>]
    /\ idx_file = [st \in Stems |-> <<>>]
    /\ now = 0
    /\ n_in = 0
    /\ submitted = <<>>
    /\ rx_hist = <<>>
    /\ appended = <<>>
    /\ loaded = None

\* the read path and the gateway's tasks are not driven
RdIdle == [pc |-> "idle"]
GwIdle == [pc |-> "idle"]

JnIdle == [pc |-> "idle"]

ClIdle == [pc |-> "idle"]

InitBase == InitQuiet /\ rd = RdIdle /\ gw = GwIdle /\ jn = JnIdle /\ cl = ClIdle

\* the codec is not driven
CodecIdle == [pc |-> "idle"]

Init == InitBase /\ profile \in Profiles /\ codec = CodecIdle

session_locals == <<out_seq_num, in_seq_num, last_rx, test_req_outstanding, hb_interval,
                    sender_comp, target_comp>>
machine_vars == <<out_seq_num, in_seq_num, last_rx, test_req_outstanding, hb_interval,
                  sender_comp, target_comp, wire, events, store_chan, pc>>
ident_vars == <<role, session_id, owner>>

\* gateway.rs:281-298: RegisterClient
RegisterClient ==
    /\ Len(clients) < MaxClients
    /\ clients' = Append(clients, Len(clients) + 1)
    /\ UNCHANGED <<other_vars, next_session_id, ident_vars, machine_vars, client_pc, has_handle, read_buf,
                   next_tick, sock_in_vars, app_out_rx, chain_vars, queue, data_file,
                   idx_file, now, profile, rx_hist>>

\* gateway.rs:95-107: the accept loop takes a connection and spawns its session task
Accept ==
    /\ role = "none"
    /\ next_session_id' = next_session_id + 1
    /\ session_id' = next_session_id + 1
    /\ role' = "acceptor"
    /\ pc' = "start"
    /\ UNCHANGED <<other_vars, clients, owner, client_pc, has_handle, session_locals, wire, events,
                   store_chan, read_buf, next_tick, sock_in_vars, app_out_rx, chain_vars,
                   queue, data_file, idx_file, now, profile, rx_hist>>

\* gateway.rs:306-337: the per-client task dials, registers the inbox and spawns the
\* session task
InitiateSession(c) ==
    /\ role = "none"
    /\ c \in Range(clients)
    /\ client_pc = "idle"
    /\ next_session_id' = next_session_id + 1
    /\ session_id' = next_session_id + 1
    /\ role' = "initiator"
    /\ owner' = c
    /\ pc' = "start"
    /\ client_pc' = "spawned"
    /\ UNCHANGED <<other_vars, clients, has_handle, session_locals, wire, events, store_chan, read_buf,
                   next_tick, sock_in_vars, app_out_rx, chain_vars, queue, data_file,
                   idx_file, now, profile, rx_hist>>

\* gateway.rs:548-554: the per-client task sends SessionActive and answers with the
\* handle; client.rs:77-110: initiate returns the Session
ClientSessionActive ==
    /\ client_pc = "spawned"
    /\ events' = [events EXCEPT ![owner] = Append(@, SessionActive)]
    /\ client_pc' = "idle"
    /\ has_handle' = TRUE
    /\ UNCHANGED <<other_vars, gateway_vars, ident_vars, pc, session_locals, wire, store_chan, read_buf,
                   next_tick, sock_in_vars, app_out_rx, chain_vars, queue, data_file,
                   idx_file, now, profile, rx_hist>>

\* gateway.rs:338-385 (initiator: locals, Logon, interval) and 111-126 (acceptor)
SessionStart ==
    /\ pc = "start"
    /\ LET M0 == [Machine EXCEPT
                    !.out_seq_num = 1, !.in_seq_num = 0, !.last_rx = now,
                    !.test_req_outstanding = None, !.pc = "loop",
                    !.hb_interval = IF role = "initiator" THEN ConfigHbSecs ELSE DefaultHbSecs]
       IN  IF role = "initiator"
           THEN Commit(stamp_send_journal(M0,
                           build_logon(ConfigHbSecs, ConfigSender, ConfigTarget)))
           ELSE Commit(M0)
    /\ next_tick' = now
    /\ UNCHANGED <<other_vars, gateway_vars, ident_vars, client_pc, has_handle, read_buf, sock_in_vars,
                   app_out_rx, chain_vars, queue, data_file, idx_file, now, profile, rx_hist>>

\* the select is biased: inbox, then socket, then timer
Readable == sock_rx # <<>> \/ sock_eof \/ sock_err

\* gateway.rs:391-411 / 131-146
SessionInbox ==
    /\ pc = "loop"
    /\ app_out_rx # <<>>
    /\ Commit(IF role = "initiator" THEN on_payload_initiator(Machine, Head(app_out_rx))
              ELSE on_payload_acceptor(Machine, Head(app_out_rx)))
    /\ app_out_rx' = Tail(app_out_rx)
    /\ UNCHANGED <<other_vars, gateway_vars, ident_vars, client_pc, has_handle, read_buf, next_tick,
                   sock_in_vars, chain_vars, queue, data_file, idx_file, now, profile, rx_hist>>

\* gateway.rs:413-513 / 147-241
SessionRead ==
    /\ pc = "loop"
    /\ app_out_rx = <<>>
    /\ Readable
    /\ IF sock_rx # <<>>
       THEN \E k \in 1..Len(sock_rx) :
               LET r == drain(Machine, read_buf \o SubSeq(sock_rx, 1, k), rx_hist)
               IN  /\ Commit(r.m)
                   /\ read_buf' = r.buf
                   /\ rx_hist' = r.hist
                   /\ sock_rx' = SubSeq(sock_rx, k + 1, Len(sock_rx))
       ELSE /\ Commit([emit(Machine, Disconnected(IF sock_err THEN "Unknown" ELSE "PeerClosed"))
                       EXCEPT !.pc = "done"])
            /\ UNCHANGED <<read_buf, rx_hist, sock_rx>>
    /\ UNCHANGED <<other_vars, gateway_vars, ident_vars, client_pc, has_handle, next_tick, sock_eof,
                   sock_err, n_in, app_out_rx, chain_vars, queue, data_file, idx_file, now,
                   profile>>

\* gateway.rs:515-543 / 242-265
SessionTick ==
    /\ pc = "loop"
    /\ app_out_rx = <<>>
    /\ ~Readable
    /\ now >= next_tick
    /\ next_tick' = now + (IF role = "initiator" THEN ConfigHbSecs ELSE AcceptorTickSecs)
    /\ Commit(IF role = "initiator" THEN on_tick_initiator(Machine) ELSE on_tick_acceptor(Machine))
    /\ UNCHANGED <<other_vars, gateway_vars, ident_vars, client_pc, has_handle, read_buf, sock_in_vars,
                   app_out_rx, chain_vars, queue, data_file, idx_file, now, profile, rx_hist>>

\* session.rs:54-68: Session::send / Session::send_admin
Submit ==
    /\ has_handle
    /\ Len(submitted) < profile.sub
    /\ Len(sess_chan) < ChanCap
    /\ \E p \in Payloads(Len(submitted) + 1) :
          /\ sess_chan' = Append(sess_chan, p)
          /\ submitted' = Append(submitted, p)
    /\ UNCHANGED <<other_vars, gateway_vars, ident_vars, machine_vars, client_pc, has_handle, read_buf,
                   next_tick, sock_in_vars, app_out_rx, cmd_chan, queue, data_file, idx_file,
                   now, profile, rx_hist>>

\* client.rs:86-106: the routing task turns a payload into a command
route(payload) ==
    IF payload.kind = "Raw"
    THEN [cmd |-> "Send", session_id |-> session_id, payload |-> payload.bytes]
    ELSE [cmd |-> "SendAdmin", session_id |-> session_id, msg |-> payload.msg]

Routing ==
    /\ sess_chan # <<>>
    /\ Len(cmd_chan) < ChanCap
    /\ cmd_chan' = Append(cmd_chan, route(Head(sess_chan)))
    /\ sess_chan' = Tail(sess_chan)
    /\ UNCHANGED <<other_vars, gateway_vars, ident_vars, machine_vars, client_pc, has_handle, read_buf,
                   next_tick, sock_in_vars, app_out_rx, submitted, queue, data_file, idx_file,
                   now, profile, rx_hist>>

\* gateway.rs:569-584: Send / SendAdmin in the per-client task
forward_cmd(cc) ==
    IF cc.cmd = "Send" THEN [kind |-> "Raw", bytes |-> cc.payload]
    ELSE [kind |-> "Admin", msg |-> cc.msg]

\* a per-client task that puts the payload at the head of the session inbox
ClientCommand_at_head ==
    /\ client_pc = "idle"
    /\ cmd_chan # <<>>
    /\ LET cc == Head(cmd_chan)
           known == role = "initiator" /\ cc.session_id = session_id
       IN  IF known /\ pc # "done"
           THEN /\ Len(app_out_rx) < ChanCap
                /\ app_out_rx' = <<forward_cmd(cc)>> \o app_out_rx
           ELSE app_out_rx' = app_out_rx
    /\ cmd_chan' = Tail(cmd_chan)
    /\ UNCHANGED <<other_vars, gateway_vars, ident_vars, machine_vars, client_pc, has_handle,
                   read_buf, next_tick, sock_in_vars, sess_chan, submitted, queue, data_file,
                   idx_file, now, profile, rx_hist>>

ClientCommand ==
    /\ client_pc = "idle"
    /\ cmd_chan # <<>>
    /\ LET cc == Head(cmd_chan)
           known == role = "initiator" /\ cc.session_id = session_id
       IN  IF known /\ pc # "done"
           THEN /\ Len(app_out_rx) < ChanCap
                /\ app_out_rx' = Append(app_out_rx, forward_cmd(cc))
           ELSE app_out_rx' = app_out_rx
    /\ cmd_chan' = Tail(cmd_chan)
    /\ UNCHANGED <<other_vars, gateway_vars, ident_vars, machine_vars, client_pc, has_handle, read_buf,
                   next_tick, sock_in_vars, sess_chan, submitted, queue, data_file, idx_file,
                   now, profile, rx_hist>>

\* the peer
PeerSend ==
    /\ pc \in {"start", "loop"}
    /\ ~sock_eof /\ ~sock_err
    /\ n_in < profile.in
    /\ \E f \in PeerFrames : sock_rx' = Append(sock_rx, f)
    /\ n_in' = n_in + 1
    /\ UNCHANGED <<other_vars, gateway_vars, ident_vars, machine_vars, client_pc, has_handle, read_buf,
                   next_tick, sock_eof, sock_err, app_out_rx, chain_vars, queue, data_file,
                   idx_file, now, profile, rx_hist>>

PeerClose ==
    /\ pc \in {"start", "loop"}
    /\ ~sock_eof /\ ~sock_err
    /\ sock_eof' = TRUE
    /\ UNCHANGED <<other_vars, gateway_vars, ident_vars, machine_vars, client_pc, has_handle, read_buf,
                   next_tick, sock_rx, sock_err, n_in, app_out_rx, chain_vars, queue,
                   data_file, idx_file, now, profile, rx_hist>>

PeerReset ==
    /\ pc \in {"start", "loop"}
    /\ ~sock_eof /\ ~sock_err
    /\ sock_err' = TRUE
    /\ UNCHANGED <<other_vars, gateway_vars, ident_vars, machine_vars, client_pc, has_handle, read_buf,
                   next_tick, sock_rx, sock_eof, n_in, app_out_rx, chain_vars, queue,
                   data_file, idx_file, now, profile, rx_hist>>

Advance ==
    /\ now < profile.time
    /\ now' = now + 1
    /\ UNCHANGED <<other_vars, gateway_vars, ident_vars, machine_vars, client_pc, has_handle, read_buf,
                   next_tick, sock_in_vars, app_out_rx, chain_vars, queue, data_file,
                   idx_file, profile, rx_hist>>

\* storage.rs:297-303: the writer receives a record, and flushes a full batch
WriterRecv ==
    /\ store_chan # <<>>
    /\ store_chan' = Tail(store_chan)
    /\ LET q == Append(queue, Head(store_chan))
       IN  IF Len(q) >= BatchMax
           THEN LET files == flush_batch([data |-> data_file, idx |-> idx_file], q)
                IN  /\ queue' = <<>>
                    /\ data_file' = files.data
                    /\ idx_file' = files.idx
           ELSE /\ queue' = q
                /\ UNCHANGED <<data_file, idx_file>>
    /\ UNCHANGED <<other_vars, gateway_vars, ident_vars, session_locals, wire, events, pc, client_pc,
                   has_handle, read_buf, next_tick, sock_in_vars, app_out_rx, chain_vars, now,
                   profile, rx_hist>>

\* storage.rs:304-306: the flush tick
WriterTick ==
    /\ queue # <<>>
    /\ LET files == flush_batch([data |-> data_file, idx |-> idx_file], queue)
       IN  /\ queue' = <<>>
           /\ data_file' = files.data
           /\ idx_file' = files.idx
    /\ UNCHANGED <<other_vars, gateway_vars, ident_vars, session_locals, wire, events, pc, client_pc,
                   has_handle, read_buf, next_tick, sock_in_vars, app_out_rx, chain_vars,
                   store_chan, now, profile, rx_hist>>

(***************************************************************************)
(* The store driven on its own: a caller appends records for one session   *)
(* and then loads a range, while the writer task runs.                     *)
(***************************************************************************)
\* the appends a caller makes before it loads
MaxAppend == 3

\* the payload of the k-th append: lines of different lengths
StorePayload(k) ==
    PeerFrame("D", IF k % 2 = 0 THEN (11 :> k) @@ (55 :> k) ELSE (11 :> k))

Directions == {"Inbound", "Outbound"}
StoreSeqs == {None} \cup {Some(n) : n \in 1..MaxSeq}

NoInputs == [in |-> 0, sub |-> 0, time |-> 0]

InitStore == InitBase /\ profile = NoInputs /\ codec = CodecIdle

session_side_vars ==
    <<gateway_vars, ident_vars, session_locals, wire, events, pc, client_pc, has_handle,
      read_buf, next_tick, sock_in_vars, app_out_rx, chain_vars, now, profile, rx_hist>>

\* storage.rs:375-391: append_bytes called by a user of the store
StoreAppend ==
    /\ loaded = None
    /\ Len(appended) < MaxAppend
    /\ \E direction \in Directions, seq \in StoreSeqs :
          LET payload == StorePayload(Len(appended) + 1)
          IN  /\ store_chan' = append_record(store_chan, sess_key, direction, seq, now, payload)
              /\ appended' = Append(appended, [direction |-> direction, seq |-> seq,
                                               payload |-> payload])
    /\ UNCHANGED <<session_side_vars, queue, data_file, idx_file, loaded, codec, rd, gw, jn, cl>>

\* storage.rs:393-445: load_outbound_range called by a user of the store
StoreLoad ==
    /\ loaded = None
    /\ \E begin_seq \in 1..MaxSeq, end_seq \in 1..MaxSeq :
          loaded' = Some([begin_seq |-> begin_seq, end_seq |-> end_seq,
                          out |-> load_outbound_range(sess_key, begin_seq, end_seq),
                          flushed |-> store_chan = <<>> /\ queue = <<>>])
    /\ UNCHANGED <<session_side_vars, store_vars, appended, codec, rd, gw, jn, cl>>

NextStore ==
    \/ StoreAppend
    \/ StoreLoad
    \/ WriterRecv
    \/ WriterTick

SpecStore == InitStore /\ [][NextStore]_vars

(***************************************************************************)
(* The codec driven on its own: a message is drawn, encoded, and the       *)
(* encoding decoded (protocol.rs).                                         *)
(***************************************************************************)
\* the tags and values of the messages drawn
CodecTags == {11, 34, 49}
MaxValue == 2

MsgTypes ==
    {Logon, Heartbeat, TestRequest, Logout, ResendRequest, SequenceReset}
        \cup {Unknown(c) : c \in {"D", "8", "?"}}

FieldMaps ==
    UNION {[T -> 1..MaxValue] : T \in SUBSET CodecTags}

Messages == {[msg_type |-> mt, fields |-> f] : mt \in MsgTypes, f \in FieldMaps}

InitCodec ==
    /\ InitBase
    /\ profile = NoInputs
    /\ \E m \in Messages : codec = [pc |-> "drawn", m |-> m]

all_but_codec == <<session_side_vars, store_vars, appended, loaded, rd, gw, jn, cl>>

\* protocol.rs:103-153
CodecEncode ==
    /\ codec.pc = "drawn"
    /\ codec' = [pc |-> "encoded", m |-> codec.m, bytes |-> encode(codec.m)]
    /\ UNCHANGED all_but_codec

\* protocol.rs:155-248
CodecDecode ==
    /\ codec.pc = "encoded"
    /\ codec' = [pc |-> "decoded", m |-> codec.m, bytes |-> codec.bytes,
                 out |-> decode(codec.bytes)]
    /\ UNCHANGED all_but_codec

NextCodec ==
    \/ CodecEncode
    \/ CodecDecode

SpecCodec == InitCodec /\ [][NextCodec]_vars

(***************************************************************************)
(* SpecDecode: decode applied to the fields of a SOH-terminated buffer.    *)
(* A buffer is the list of its fields after the split at SOH, each a tag   *)
(* and the bytes of its value; the last one is the trailer.                *)
(***************************************************************************)
MaxBody == 3

\* the bytes of "FIX.4.4", "A", "D", "1", "2"
FIX44 == <<70, 73, 88, 46, 52, 46, 52>>
ValueBytes == {<<49>>, <<50>>}
TypeBytes == {<<65>>, <<68>>}

\* the decimal digits of a number, as bytes
digits(n) == IF n < 10 THEN <<48 + n>>
             ELSE IF n < 100 THEN <<48 + (n \div 10), 48 + (n % 10)>>
             ELSE <<48 + (n \div 100), 48 + ((n \div 10) % 10), 48 + (n % 10)>>

\* the bytes of one field with the SOH that ends it: tag, '=', value, SOH
field_bytes(f) == digits(f[1]) \o <<61>> \o f[2] \o <<1>>

\* protocol.rs:61-64
compute_checksum(fs) ==
    SeqSum([i \in DOMAIN fs |-> SeqSum(field_bytes(fs[i]))]) % 256

\* protocol.rs:206-226: the bytes counted as body, from the first field after 9=
RECURSIVE body_count(_, _, _)
body_count(fs, seen_8, seen_9) ==
    IF fs = <<>> THEN 0
    ELSE LET f == Head(fs)
         IN  IF ~seen_8 /\ f[1] = 8 THEN body_count(Tail(fs), TRUE, seen_9)
             ELSE IF ~seen_9 THEN body_count(Tail(fs), seen_8, f[1] = 9)
             ELSE Len(field_bytes(f)) + body_count(Tail(fs), seen_8, seen_9)

\* protocol.rs:187-196: the fields inserted into the map, one after the other
RECURSIVE insert_all(_, _)
insert_all(map, fs) ==
    IF fs = <<>> THEN map
    ELSE insert_all([t \in DOMAIN map \cup {Head(fs)[1]} |->
                        IF t = Head(fs)[1] THEN Head(fs)[2] ELSE map[t]],
                    Tail(fs))

\* the number a value spells, None when it is not one
parse_value(v) ==
    IF v = <<>> \/ \E i \in DOMAIN v : v[i] \notin 48..57 THEN None
    ELSE Some(SeqSum([i \in DOMAIN v |->
                 (v[i] - 48) * (IF Len(v) - i = 0 THEN 1 ELSE IF Len(v) - i = 1 THEN 10 ELSE 100)]))

\* protocol.rs:155-248
decode_fields(buf) ==
    LET Err == [ok |-> FALSE]
        trailer == buf[Len(buf)]
        fields == SubSeq(buf, 1, Len(buf) - 1)
        map == insert_all(<<>>, fields)
    IN  IF buf = <<>> \/ trailer[1] # 10 THEN Err
        ELSE IF parse_value(trailer[2]) = None \/ Unwrap(parse_value(trailer[2])) > 255 THEN Err
        ELSE IF compute_checksum(fields) # Unwrap(parse_value(trailer[2])) THEN Err
        ELSE IF {8, 9, 35} \ DOMAIN map # {} THEN Err
        ELSE IF parse_value(map[9]) = None THEN Err
        ELSE IF body_count(fields, FALSE, FALSE) # Unwrap(parse_value(map[9])) THEN Err
        ELSE [ok |-> TRUE,
              begin_string |-> map[8],
              body_length |-> Unwrap(parse_value(map[9])),
              msg_type |-> map[35],
              fields |-> [t \in DOMAIN map \ {8, 9, 35} |-> map[t]]]

BodyFields == {<<t, v>> : t \in {11, 34}, v \in ValueBytes}
BodySeqs == UNION {[1..n -> BodyFields] : n \in 0..MaxBody}

\* the buffers: a header, a body, a BodyLength and a checksum that are right or off by one
RawBuffers ==
    {<<<<8, FIX44>>, <<9, digits(body_count(<<<<35, ty>>>> \o body, TRUE, TRUE) + dl)>>,
       <<35, ty>>>> \o body
       \o <<<<10, digits((compute_checksum(
                 <<<<8, FIX44>>,
                   <<9, digits(body_count(<<<<35, ty>>>> \o body, TRUE, TRUE) + dl)>>,
                   <<35, ty>>>> \o body) + dc) % 256)>>>> :
        ty \in TypeBytes, body \in BodySeqs, dl \in {0, 1}, dc \in {0, 1}}

InitDecode ==
    /\ InitBase
    /\ profile = NoInputs
    /\ \E buf \in RawBuffers : codec = [pc |-> "raw", buf |-> buf]

\* protocol.rs:155-248
DecodeRaw ==
    /\ codec.pc = "raw"
    /\ codec' = [pc |-> "raw_decoded", buf |-> codec.buf, out |-> decode_fields(codec.buf)]
    /\ UNCHANGED all_but_codec

NextDecode == DecodeRaw

SpecDecode == InitDecode /\ [][NextDecode]_vars

(***************************************************************************)
(* The framer driven on its own (protocol.rs:252-276).  Bytes are one-char *)
(* strings; "|" stands for SOH.                                            *)
(***************************************************************************)
SOH == "|"
Digits == <<"0", "1", "2", "3", "4", "5", "6", "7", "8", "9">>

SetMin(S) == CHOOSE x \in S : \A y \in S : x <= y

\* a search that returns the last match
find_field_start_last(haystack, pat) ==
    LET hits == {i \in 1..(Len(haystack) - 1) :
                    haystack[i] = pat[1] /\ haystack[i + 1] = pat[2]}
    IN  IF hits = {} THEN None ELSE Some((CHOOSE x \in hits : \A y \in hits : x >= y) - 1)

\* memchr::memmem::find for a two-byte pattern: the 0-based index of the first match
find_field_start(haystack, pat) ==
    LET hits == {i \in 1..(Len(haystack) - 1) :
                    haystack[i] = pat[1] /\ haystack[i + 1] = pat[2]}
    IN  IF hits = {} THEN None ELSE Some(SetMin(hits) - 1)

\* memchr::memchr: the 0-based index of the first byte b
memchr(b, haystack) ==
    LET hits == {i \in 1..Len(haystack) : haystack[i] = b}
    IN  IF hits = {} THEN None ELSE Some(SetMin(hits) - 1)

DigitValue(c) == (CHOOSE i \in 1..10 : Digits[i] = c) - 1

\* str::parse::<usize> on decimal digits
RECURSIVE parse_usize(_)
parse_usize(chars) ==
    IF chars = <<>> \/ \E i \in 1..Len(chars) : chars[i] \notin Range(Digits) THEN None
    ELSE IF Len(chars) = 1 THEN Some(DigitValue(chars[1]))
    ELSE Some(10 * Unwrap(parse_usize(SubSeq(chars, 1, Len(chars) - 1)))
                 + DigitValue(chars[Len(chars)]))

\* data[a..b] with 0-based a and exclusive b
Slice(data, a, b) == SubSeq(data, a + 1, b)

\* protocol.rs:252-272: the frame taken, if any, and the buffer left
try_extract_one(buffer) ==
    LET none == [msg |-> None, buffer |-> buffer]
        start == find_field_start(buffer, <<"8", "=">>)
    IN  IF start = None THEN none
        ELSE
        LET st == Unwrap(start)
            nine == find_field_start(Slice(buffer, st, Len(buffer)), <<"9", "=">>)
        IN  IF nine = None THEN none
            ELSE
            LET nine_pos == Unwrap(nine) + st
                soh == memchr(SOH, Slice(buffer, nine_pos, Len(buffer)))
            IN  IF soh = None THEN none
                ELSE
                LET nine_end == Unwrap(soh) + nine_pos
                    body_len == parse_usize(Slice(buffer, nine_pos + 2, nine_end))
                IN  IF body_len = None THEN none
                    ELSE
                    LET body_start == nine_end + 1
                        total_len == body_start + Unwrap(body_len) + 7 - st
                    IN  IF st + total_len > Len(buffer) THEN none
                        ELSE [msg |-> Some(Slice(buffer, st, st + total_len)),
                              buffer |-> Slice(buffer, st + total_len, Len(buffer))]

\* the decimal digits of n
RECURSIVE to_string(_)
to_string(n) == IF n < 10 THEN <<Digits[n + 1]>> ELSE to_string(n \div 10) \o <<Digits[(n % 10) + 1]>>

\* a valid frame: 8=FIX.4.4|9=<len>|<body>10=<ccc>|
WireFrame(body, ck) ==
    <<"8", "=", "F", "I", "X", ".", "4", ".", "4", SOH, "9", "=">> \o to_string(Len(body))
        \o <<SOH>> \o body \o <<"1", "0", "=">> \o ck \o <<SOH>>

\* bodies: 35=0| , 35=A|108=3| , 35=D|49=I| , 35=5|58=9=8=|
Bodies ==
    { <<"3", "5", "=", "0", SOH>>,
      <<"3", "5", "=", "A", SOH, "1", "0", "8", "=", "3", SOH>>,
      <<"3", "5", "=", "D", SOH, "4", "9", "=", "I", SOH>>,
      <<"3", "5", "=", "5", SOH, "5", "8", "=", "9", "=", "8", "=", SOH>> }

Checksums == { <<"0", "0", "0">>, <<"1", "9", "8">> }

WireFrames == {WireFrame(b, ck) : b \in Bodies, ck \in Checksums}

\* the frames of one stream
MaxFrames == 2

RECURSIVE Concat(_)
Concat(ss) == IF ss = <<>> THEN <<>> ELSE Head(ss) \o Concat(Tail(ss))

FrameSeqs == UNION {[1..n -> WireFrames] : n \in 0..MaxFrames}

\* the proper prefixes of the frames, the empty one included
ProperPrefixes == UNION {{SubSeq(f, 1, n) : n \in 0..(Len(f) - 1)} : f \in WireFrames}

InitFramer ==
    /\ InitBase
    /\ profile = NoInputs
    /\ \E fs \in FrameSeqs, tail \in ProperPrefixes :
          codec = [pc |-> "framing", frames |-> fs, tail |-> tail,
                   buffer |-> Concat(fs) \o tail, out |-> <<>>]

\* the caller's loop: while let Some(msg_bytes) = try_extract_one(&mut read_buf)
FramerExtract ==
    /\ codec.pc = "framing"
    /\ LET r == try_extract_one(codec.buffer)
       IN  codec' = IF IsSome(r.msg)
                    THEN [codec EXCEPT !.out = Append(@, Unwrap(r.msg)), !.buffer = r.buffer]
                    ELSE [codec EXCEPT !.pc = "none", !.buffer = r.buffer]
    /\ UNCHANGED all_but_codec

NextFramer == FramerExtract

SpecFramer == InitFramer /\ [][NextFramer]_vars

(***************************************************************************)
(* An idle session and an application that never stops submitting: the     *)
(* session with no inbound bytes.  The bytes written for the application's *)
(* payloads and their journal records are not recorded here, so that an    *)
(* endless stream of submissions is a finite-state behaviour.              *)
(***************************************************************************)
InitLive ==
    /\ InitBase
    /\ profile = [in |-> 0, sub |-> 0, time |-> MaxTime]
    /\ codec = CodecIdle

\* session.rs:54-60: Session::send, any number of times
SubmitLive ==
    /\ has_handle
    /\ Len(sess_chan) < ChanCap
    /\ \E p \in {q \in Payloads(1) : q.kind = "Raw"} : sess_chan' = Append(sess_chan, p)
    /\ UNCHANGED <<other_vars, gateway_vars, ident_vars, machine_vars, client_pc, has_handle,
                   read_buf, next_tick, sock_in_vars, app_out_rx, cmd_chan, submitted, queue,
                   data_file, idx_file, now, profile, rx_hist>>

\* gateway.rs:391-397: the inbox branch for a Raw payload
SessionInboxLive ==
    /\ pc = "loop"
    /\ app_out_rx # <<>>
    /\ LET M == on_payload_initiator(Machine, Head(app_out_rx))
       IN  Commit([M EXCEPT !.wire = wire, !.store_chan = store_chan])
    /\ app_out_rx' = Tail(app_out_rx)
    /\ UNCHANGED <<other_vars, gateway_vars, ident_vars, client_pc, has_handle, read_buf,
                   next_tick, sock_in_vars, chain_vars, queue, data_file, idx_file, now,
                   profile, rx_hist>>

\* the session task: one step of its start or of its select loop
SessionTaskLive == SessionStart \/ SessionInboxLive \/ SessionTick

\* the per-client gateway task
ClientTaskLive == ClientSessionActive \/ ClientCommand

NextLive ==
    \/ RegisterClient
    \/ \E c \in Clients : InitiateSession(c)
    \/ ClientSessionActive
    \/ SessionStart
    \/ SessionInboxLive
    \/ SessionTick
    \/ SubmitLive
    \/ Routing
    \/ ClientCommand
    \/ Advance

\* every task that can run does run, and time passes; the application is free
SpecLive ==
    /\ InitLive
    /\ [][NextLive]_vars
    /\ WF_vars(SessionTaskLive)
    /\ WF_vars(ClientTaskLive)
    /\ WF_vars(Routing)
    /\ WF_vars(Advance)

(***************************************************************************)
(* The idle timer with a peer that answers: a session whose peer sends a   *)
(* Logon and Heartbeats while time passes.                                 *)
(***************************************************************************)
IdleIn == 2
IdleTime == 2

InitIdle ==
    /\ InitBase
    /\ profile = [in |-> IdleIn, sub |-> 0, time |-> IdleTime]
    /\ codec = CodecIdle

\* what the peer of an idle session sends: its Logon, and Heartbeats without a
\* TestReqID, with the TestReqID of the engine's TestRequest, and with another one
IdleFrames ==
    { PeerFrame("A", (34 :> 1) @@ (49 :> "I") @@ (56 :> "A") @@ (108 :> ConfigHbSecs)),
      PeerFrame("0", (34 :> 2)),
      PeerFrame("0", (34 :> 2) @@ (112 :> TestReqId(2))),
      PeerFrame("0", (34 :> 2) @@ (112 :> <<"P", 1>>)) }

PeerSendIdle ==
    /\ pc \in {"start", "loop"}
    /\ n_in < profile.in
    /\ \E f \in IdleFrames : sock_rx' = Append(sock_rx, f)
    /\ n_in' = n_in + 1
    /\ UNCHANGED <<other_vars, gateway_vars, ident_vars, machine_vars, client_pc, has_handle,
                   read_buf, next_tick, sock_eof, sock_err, app_out_rx, chain_vars, queue,
                   data_file, idx_file, now, profile, rx_hist>>

NextIdle ==
    \/ RegisterClient
    \/ Accept
    \/ \E c \in Clients : InitiateSession(c)
    \/ ClientSessionActive
    \/ SessionStart
    \/ SessionRead
    \/ SessionTick
    \/ PeerSendIdle
    \/ Advance
    \/ WriterRecv
    \/ WriterTick

SpecIdle == InitIdle /\ [][NextIdle]_vars

(***************************************************************************)
(* The socket read path, byte by byte: the peer's stream arrives in chunks *)
(* of any size, each read appends what has arrived to read_buf, and the    *)
(* frame loop takes the complete frames.  The frames of the stream decode  *)
(* and do not leave the loop; what their handling does beyond last_rx is   *)
(* SessionRead above.                                                      *)
(***************************************************************************)
MaxReadTime == 3

\* the frames the peer streams: 35=0| and 35=D|49=I| with MaxFrames frames at most
ReadFrames ==
    { WireFrame(<<"3", "5", "=", "0", SOH>>, <<"0", "0", "0">>),
      WireFrame(<<"3", "5", "=", "D", SOH, "4", "9", "=", "I", SOH>>, <<"0", "0", "0">>) }

ReadStreams == {Concat(fs) : fs \in UNION {[1..n -> ReadFrames] : n \in 1..MaxFrames}}

\* the session task in its select loop (gateway.rs:342-385): last_rx is the instant of
\* its start, the interval's first tick is immediate
InitReader ==
    /\ InitQuiet
    /\ profile = NoInputs
    /\ codec = CodecIdle
    /\ gw = GwIdle
    /\ jn = JnIdle
    /\ cl = ClIdle
    /\ \E st \in ReadStreams :
          rd = [pc |-> "loop", stream |-> st, sock |-> <<>>, read_buf |-> <<>>,
                last_rx |-> 0, now |-> 0, next_tick |-> 0, hb_interval |-> ConfigHbSecs,
                test_req_outstanding |-> FALSE, timer |-> <<>>,
                last_read |-> None, n_frames |-> 0]

all_but_rd == <<session_side_vars, store_vars, appended, loaded, codec, gw, jn, cl>>

\* gateway.rs:423-424 / 157-158: while let Some(msg_bytes) = try_extract_one(..)
\* { last_rx = Instant::now(); .. }
RECURSIVE frame_loop(_, _, _, _)
frame_loop(buffer, last, t, n) ==
    LET e == try_extract_one(buffer)
    IN  IF e.msg = None THEN [read_buf |-> buffer, last_rx |-> last, n_frames |-> n]
        ELSE frame_loop(e.buffer, t, t, n + 1)

\* the sizes of the chunks the peer writes when n bytes are left: as many bytes as
\* 8=FIX.4.4|9= has, or all that is left
HeaderLen == 12
ChunkSizes(n) == {k \in {HeaderLen, n} : k <= n}

\* the peer writes the next bytes of its stream
PeerSendBytes ==
    /\ rd.pc = "loop"
    /\ rd.stream # <<>>
    /\ \E k \in ChunkSizes(Len(rd.stream)) :
          rd' = [rd EXCEPT !.sock = @ \o SubSeq(rd.stream, 1, k),
                           !.stream = SubSeq(rd.stream, k + 1, Len(rd.stream))]
    /\ UNCHANGED all_but_rd

\* gateway.rs:413-424 / 147-158: read_buf returns Ok(n), n >= 1, and the frame loop runs
SessionReadBytes ==
    /\ rd.pc = "loop"
    /\ rd.sock # <<>>
    /\ LET r == frame_loop(rd.read_buf \o rd.sock, rd.last_rx, rd.now, rd.n_frames)
       IN  rd' = [rd EXCEPT !.sock = <<>>, !.read_buf = r.read_buf, !.last_rx = r.last_rx,
                            !.n_frames = r.n_frames, !.last_read = Some(rd.now)]
    /\ UNCHANGED all_but_rd

\* gateway.rs:515-543 / 242-265: the timer branch, taken when no read is ready; timer
\* records what it did and how long ago the last byte was read
SessionTickBytes ==
    /\ rd.pc = "loop"
    /\ rd.sock = <<>>
    /\ rd.now >= rd.next_tick
    /\ LET idle == rd.now - rd.last_rx
           since == rd.now - unwrap_or(rd.last_read, 0)
           did(kind) == Append(rd.timer, [kind |-> kind, since_read |-> since])
           ticked == [rd EXCEPT !.next_tick = rd.now + rd.hb_interval]
       IN  rd' = IF idle >= rd.hb_interval * 3
                 THEN [ticked EXCEPT !.timer = did("Timeout"), !.pc = "done"]
                 ELSE IF idle >= rd.hb_interval * 2
                 THEN IF ~rd.test_req_outstanding
                      THEN [ticked EXCEPT !.timer = did("TestRequest"),
                                          !.test_req_outstanding = TRUE]
                      ELSE ticked
                 ELSE IF idle >= rd.hb_interval
                 THEN [ticked EXCEPT !.timer = did("Heartbeat")]
                 ELSE ticked
    /\ UNCHANGED all_but_rd

AdvanceBytes ==
    /\ rd.pc = "loop"
    /\ rd.now < MaxReadTime
    /\ rd' = [rd EXCEPT !.now = @ + 1]
    /\ UNCHANGED all_but_rd

NextReader == PeerSendBytes \/ SessionReadBytes \/ SessionTickBytes \/ AdvanceBytes

SpecReader == InitReader /\ [][NextReader]_vars

(***************************************************************************)
(* The gateway's tasks with several sessions (gateway.rs:58-608): the call *)
(* of Gateway::spawn, the root task, the detached accept loop, the         *)
(* per-client tasks and the session tasks as far as their inboxes go.      *)
(* What a session task does with a payload or a frame is Spec above.       *)
(***************************************************************************)
MaxSessions == 2
MaxSends == 1

\* AtomicU64::fetch_add(1, Relaxed): the value before, and the value stored
fetch_add_forgetful(v) == [prev |-> v, next |-> v]
fetch_add(v) == [prev |-> v, next |-> v + 1]

\* gateway.rs:59-66: spawn has made the command channel, the counter and the shared
\* maps and has spawned the root task; it has not returned yet
GwInit ==
    [pc |-> "spawn",
     handle |-> FALSE,               \* Ok(GatewayHandle) was returned
     root |-> "bind",                \* the root task: bind, serving, exited
     bind_failed |-> FALSE,
     shutdown |-> FALSE,             \* the root task has processed Shutdown
     accept_loop |-> "none",         \* none, accepting, or registering a connection
     accept_id |-> 0,
     next_session_id |-> 0,
     cmd_rx |-> <<>>,                \* GatewayCommands sent and not yet received
     asked |-> {},                   \* clients that called register_client
     clients |-> <<>>,               \* registered clients, in order
     client_pc |-> [c \in Clients |-> "idle"],
     dial_id |-> [c \in Clients |-> 0],
     session_senders |-> [c \in Clients |-> {}],
     global_session_senders |-> {},
     handles |-> [c \in Clients |-> <<>>],   \* the SessionHandle ids answered
     handed |-> <<>>,                \* history: the ids drawn from the counter, in order
     sessions |-> <<>>,              \* the session tasks, in the order they were spawned
     sends |-> <<>>]                 \* history: the Send commands handled

InitGateway ==
    /\ InitQuiet
    /\ profile = NoInputs
    /\ codec = CodecIdle
    /\ rd = RdIdle
    /\ jn = JnIdle
    /\ cl = ClIdle
    /\ gw = GwInit

all_but_gw == <<session_side_vars, store_vars, appended, loaded, codec, rd, jn, cl>>

\* a session task just spawned
NewSession(id, kind, c) ==
    [id |-> id, kind |-> kind, owner |-> c, state |-> "live", inbox |-> <<>>,
     forwarded |-> <<>>, written |-> <<>>, disconnected |-> None,
     after_shutdown |-> gw.shutdown]

SessionIndex(id) == {i \in DOMAIN gw.sessions : gw.sessions[i].id = id}
Live(id) == \E i \in SessionIndex(id) : gw.sessions[i].state = "live"

\* gateway.rs:608: Ok(GatewayHandle { cmd_tx })
GwSpawnReturn ==
    /\ gw.pc = "spawn"
    /\ gw' = [gw EXCEPT !.pc = "returned", !.handle = TRUE]
    /\ UNCHANGED all_but_gw

\* gateway.rs:77-94: the root task binds; on Err it returns, on Ok it spawns the accept
\* loop and goes on to its command loop
GwBind ==
    /\ gw.root = "bind"
    /\ \E ok \in BOOLEAN :
          gw' = IF ok
                THEN [gw EXCEPT !.root = "serving", !.accept_loop = "accepting"]
                ELSE [gw EXCEPT !.root = "exited", !.bind_failed = TRUE, !.cmd_rx = <<>>]
    /\ UNCHANGED all_but_gw

\* gateway.rs:39-49: GatewayHandle::register_client sends RegisterClient; the send
\* fails when the root task has dropped the receiver
GwRegisterCall(c) ==
    /\ gw.handle
    /\ c \notin gw.asked
    /\ gw' = [gw EXCEPT !.asked = @ \cup {c},
                        !.cmd_rx = IF gw.root = "exited" THEN @
                                   ELSE Append(@, [cmd |-> "RegisterClient", c |-> c])]
    /\ UNCHANGED all_but_gw

\* a Shutdown command is sent on the command channel
GwShutdownCall ==
    /\ gw.handle
    /\ gw.root # "exited"
    /\ \A i \in DOMAIN gw.cmd_rx : gw.cmd_rx[i].cmd # "Shutdown"
    /\ gw' = [gw EXCEPT !.cmd_rx = Append(@, [cmd |-> "Shutdown"])]
    /\ UNCHANGED all_but_gw

\* gateway.rs:279-603: the root task's command loop: RegisterClient pushes the client's
\* sender and spawns the per-client task; Shutdown breaks, which ends the root task
GwRootRecv ==
    /\ gw.root = "serving"
    /\ gw.cmd_rx # <<>>
    /\ LET cmd == Head(gw.cmd_rx)
       IN  gw' = IF cmd.cmd = "RegisterClient"
                 THEN [gw EXCEPT !.cmd_rx = Tail(@), !.clients = Append(@, cmd.c)]
                 ELSE [gw EXCEPT !.cmd_rx = <<>>, !.root = "exited", !.shutdown = TRUE]
    /\ UNCHANGED all_but_gw

\* gateway.rs:95-98: the accept loop takes a connection and draws its id
GwAccept ==
    /\ gw.accept_loop = "accepting"
    /\ Len(gw.handed) < MaxSessions
    /\ LET f == fetch_add(gw.next_session_id)
       IN  gw' = [gw EXCEPT !.next_session_id = f.next,
                            !.accept_id = f.prev + 1,
                            !.handed = Append(@, f.prev + 1),
                            !.accept_loop = "registering"]
    /\ UNCHANGED all_but_gw

\* gateway.rs:99-108: it registers the inbox in global_session_senders and spawns the
\* session task
GwAcceptSpawn ==
    /\ gw.accept_loop = "registering"
    /\ gw' = [gw EXCEPT !.global_session_senders = @ \cup {gw.accept_id},
                        !.sessions = Append(@, NewSession(gw.accept_id, "accepted", 0)),
                        !.accept_loop = "accepting"]
    /\ UNCHANGED all_but_gw

\* gateway.rs:306-318, 556-566: the per-client task handles InitiateSession: it dials;
\* on Ok it draws the id, on Err it answers with session id 0
GwDial(c) ==
    /\ c \in Range(gw.clients)
    /\ gw.client_pc[c] = "idle"
    /\ Len(gw.handed) < MaxSessions
    /\ Len(gw.handles[c]) < MaxSessions
    /\ \E ok \in BOOLEAN :
          LET f == fetch_add(gw.next_session_id)
          IN  gw' = IF ok
                    THEN [gw EXCEPT !.next_session_id = f.next,
                                    !.dial_id[c] = f.prev + 1,
                                    !.handed = Append(@, f.prev + 1),
                                    !.client_pc[c] = "registering"]
                    ELSE [gw EXCEPT !.handles[c] = Append(@, 0)]
    /\ UNCHANGED all_but_gw

\* gateway.rs:319-337, 548-554: it registers the inbox in its own session_senders and in
\* global_session_senders, spawns the session task and answers with the handle
GwInitiateSpawn(c) ==
    /\ gw.client_pc[c] = "registering"
    /\ gw' = [gw EXCEPT !.session_senders[c] = @ \cup {gw.dial_id[c]},
                        !.global_session_senders = @ \cup {gw.dial_id[c]},
                        !.sessions = Append(@, NewSession(gw.dial_id[c], "initiated", c)),
                        !.handles[c] = Append(@, gw.dial_id[c]),
                        !.client_pc[c] = "idle"]
    /\ UNCHANGED all_but_gw

\* gateway.rs:569-584: the per-client task handles Send / SendAdmin naming session id:
\* it looks the id up in its own session_senders and sends to that inbox, if any
GwSend(c, id) ==
    /\ c \in Range(gw.clients)
    /\ gw.client_pc[c] = "idle"
    /\ Len(gw.sends) < MaxSends
    /\ LET payload == Len(gw.sends) + 1
           found == id \in gw.session_senders[c]
       IN  gw' = [gw EXCEPT
                    !.sends = Append(@, [client |-> c, session_id |-> id,
                                         payload |-> payload, live |-> Live(id)]),
                    !.sessions = [i \in DOMAIN @ |->
                                    IF found /\ @[i].id = id /\ @[i].state = "live"
                                    THEN [@[i] EXCEPT !.inbox = Append(@, payload),
                                                      !.forwarded = Append(@, payload)]
                                    ELSE @[i]]]
    /\ UNCHANGED all_but_gw

\* gateway.rs:391-411 / 131-146: a session task takes a payload from its inbox and
\* writes it
GwSessionInbox(i) ==
    /\ i \in DOMAIN gw.sessions
    /\ gw.sessions[i].state = "live"
    /\ gw.sessions[i].inbox # <<>>
    /\ gw' = [gw EXCEPT !.sessions[i].written = Append(@, Head(gw.sessions[i].inbox)),
                        !.sessions[i].inbox = Tail(@)]
    /\ UNCHANGED all_but_gw

\* gateway.rs:415-420 / 149-155: the peer closes, read returns Ok(0): Disconnected
\* {PeerClosed} and the session task ends
GwSessionEof(i) ==
    /\ i \in DOMAIN gw.sessions
    /\ gw.sessions[i].state = "live"
    /\ gw.sessions[i].inbox = <<>>
    /\ gw' = [gw EXCEPT !.sessions[i].state = "closed",
                        !.sessions[i].disconnected = Some("PeerClosed")]
    /\ UNCHANGED all_but_gw

NextGateway ==
    \/ GwSpawnReturn
    \/ GwBind
    \/ \E c \in Clients : GwRegisterCall(c)
    \/ GwShutdownCall
    \/ GwRootRecv
    \/ GwAccept
    \/ GwAcceptSpawn
    \/ \E c \in Clients : GwDial(c)
    \/ \E c \in Clients : GwInitiateSpawn(c)
    \/ \E c \in Clients, id \in 1..MaxSessions : GwSend(c, id)
    \/ \E i \in 1..MaxSessions : GwSessionInbox(i)
    \/ \E i \in 1..MaxSessions : GwSessionEof(i)

SpecGateway == InitGateway /\ [][NextGateway]_vars

(***************************************************************************)
(* SpecJournal: the gateway's one store (gateway.rs:66) used by the        *)
(* initiated sessions of several keys, one connection after the other,     *)
(* with a writer whose file operations may fail.                           *)
(***************************************************************************)
MaxConns == 3
MaxJournal == 3

InitJournal ==
    /\ InitQuiet
    /\ profile = NoInputs
    /\ codec = CodecIdle
    /\ rd = RdIdle
    /\ gw = GwIdle
    /\ cl = ClIdle
    /\ jn = [pc |-> "run", out_seq_num |-> [k \in JournalKeys |-> 0], conns |-> 0,
             log |-> <<>>]

all_but_jn == <<session_side_vars, appended, loaded, codec, rd, gw, cl>>

\* the session task of key k stamps m, and journals it after the write
jn_stamp_journal(k, m) ==
    LET seq_for_store == jn.out_seq_num[k]
        bytes == encode(set_field(m, 34, seq_for_store))
    IN  /\ store_chan' = append_record(store_chan, k, "Outbound", Some(seq_for_store), now,
                                       bytes)
        /\ jn' = [jn EXCEPT !.out_seq_num[k] = seq_for_store + 1,
                            !.log = Append(@, [key |-> k, seq |-> seq_for_store])]

\* gateway.rs:337-375: the session task of a connection starts at out_seq_num 1 and
\* journals its Logon
JnSessionStart(k) ==
    /\ jn.pc = "run"
    /\ jn.out_seq_num[k] = 0
    /\ jn.conns < MaxConns
    /\ Len(jn.log) < MaxJournal
    /\ LET j1 == [jn EXCEPT !.out_seq_num[k] = 1, !.conns = @ + 1]
           bytes == encode(set_field(build_logon(ConfigHbSecs, k.sender_comp_id,
                                                  k.target_comp_id), 34, 1))
       IN  /\ store_chan' = append_record(store_chan, k, "Outbound", Some(1), now, bytes)
           /\ jn' = [j1 EXCEPT !.out_seq_num[k] = 2,
                               !.log = Append(@, [key |-> k, seq |-> 1])]
    /\ UNCHANGED <<all_but_jn, queue, data_file, idx_file>>

\* gateway.rs:398-406: an admin payload is stamped, written and journaled
JnSendAdmin(k) ==
    /\ jn.pc = "run"
    /\ jn.out_seq_num[k] > 0
    /\ jn.out_seq_num[k] <= MaxSeq
    /\ Len(jn.log) < MaxJournal
    /\ jn_stamp_journal(k, build_heartbeat(None, k.sender_comp_id, k.target_comp_id))
    /\ UNCHANGED <<all_but_jn, queue, data_file, idx_file>>

\* gateway.rs:415-420: the connection ends and with it the session task's locals
JnSessionEnd(k) ==
    /\ jn.pc = "run"
    /\ jn.out_seq_num[k] > 0
    /\ jn' = [jn EXCEPT !.out_seq_num[k] = 0]
    /\ UNCHANGED <<all_but_jn, store_vars>>

\* storage.rs:319-349: flush_batch when the file operation `fail` of the i-th record
\* returns an error: the records before it are written, the i-th is popped and lost
\* ("data": nothing of it is written; "idx": its line is written, its index entry is
\* not), the others stay in the queue
flush_batch_io(files, q, i, fail) ==
    LET done == flush_batch(files, SubSeq(q, 1, i - 1))
        rec == q[i]
        stem == file_stem(rec.session)
    IN  [files |-> IF fail = "idx"
                   THEN [data |-> [done.data EXCEPT ![stem] = Append(@, rec)],
                         idx |-> done.idx]
                   ELSE done,
         queue |-> SubSeq(q, i + 1, Len(q))]

\* the file operations of flush_batch that can fail for the i-th record of q
Failures(q, i) ==
    {"data"} \cup (IF q[i].direction = "Outbound" /\ IsSome(q[i].seq) THEN {"idx"} ELSE {})

\* storage.rs:297-303 when the flush returns an error, which the task ignores
WriterRecvIo ==
    /\ store_chan # <<>>
    /\ Len(queue) + 1 >= BatchMax
    /\ LET q == Append(queue, Head(store_chan))
       IN  \E i \in DOMAIN q : \E fail \in Failures(q, i) :
              LET r == flush_batch_io([data |-> data_file, idx |-> idx_file], q, i, fail)
              IN  /\ queue' = r.queue
                  /\ data_file' = r.files.data
                  /\ idx_file' = r.files.idx
    /\ store_chan' = Tail(store_chan)
    /\ UNCHANGED <<all_but_jn, jn>>

\* storage.rs:304-306 when the flush returns an error, which the task ignores
WriterTickIo ==
    /\ queue # <<>>
    /\ \E i \in DOMAIN queue : \E fail \in Failures(queue, i) :
          LET r == flush_batch_io([data |-> data_file, idx |-> idx_file], queue, i, fail)
          IN  /\ queue' = r.queue
              /\ data_file' = r.files.data
              /\ idx_file' = r.files.idx
    /\ UNCHANGED <<all_but_jn, jn, store_chan>>

NextJournal ==
    \/ \E k \in JournalKeys : JnSessionStart(k)
    \/ \E k \in JournalKeys : JnSendAdmin(k)
    \/ \E k \in JournalKeys : JnSessionEnd(k)
    \/ WriterRecv
    \/ WriterTick
    \/ WriterRecvIo
    \/ WriterTickIo

SpecJournal == InitJournal /\ [][NextJournal]_vars

(***************************************************************************)
(* SpecClient: one FixClient with the sessions it initiated: its event     *)
(* loop and handler (client.rs), the routing task of each Session, the     *)
(* per-client task and the session tasks (gateway.rs), joined by bounded   *)
(* channels.  Counts stand for the channels whose items are all alike.     *)
(***************************************************************************)
MailCap == 2
MaxHandles == 2
MaxPeerFrames == 3
MaxHandlerSends == 9

Handles == 1..MaxHandles

InitClient ==
    /\ InitQuiet
    /\ profile = NoInputs
    /\ codec = CodecIdle
    /\ rd = RdIdle
    /\ gw = GwIdle
    /\ jn = JnIdle
    /\ cl = [pc |-> "setup", current_session |-> None, next_session_id |-> 0,
             events_rx |-> <<>>, todo |-> 0, calls |-> <<>>,
             out |-> [id \in Handles |-> 0], routing |-> [id \in Handles |-> FALSE],
             cmd |-> <<>>, client_task |-> None, inbox |-> [id \in Handles |-> 0],
             sock |-> [id \in Handles |-> 0], pending |-> [id \in Handles |-> 0],
             written |-> [id \in Handles |-> 0], sends |-> 0, frames |-> 0]

all_but_cl == <<session_side_vars, store_vars, appended, loaded, codec, rd, gw, jn>>

\* the handle the handler was called with
Handle == cl.calls[Len(cl.calls)].handle

\* client.rs:64-110 with gateway.rs:306-337 and 548-554: initiate asks the per-client
\* task, which spawns the session task, sends SessionActive and answers; initiate makes
\* the Session, spawns its routing task and keeps the Session as current_session
ClInitiate ==
    /\ cl.pc = "setup"
    /\ cl.next_session_id < MaxHandles
    /\ Len(cl.events_rx) < MailCap
    /\ LET id == fetch_add(cl.next_session_id).prev + 1
       IN  cl' = [cl EXCEPT !.next_session_id = fetch_add(cl.next_session_id).next,
                            !.events_rx = Append(@, [kind |-> "SessionActive",
                                                     session_id |-> id]),
                            !.current_session = Some(id)]
    /\ UNCHANGED all_but_cl

\* client.rs:112-113: the application calls run
ClRun ==
    /\ cl.pc = "setup"
    /\ cl' = [cl EXCEPT !.pc = "recv"]
    /\ UNCHANGED all_but_cl

\* client.rs:113-141: the event loop takes an event and calls the handler with
\* current_session; the handler decides how many payloads it will send
ClDispatch ==
    /\ cl.pc = "recv"
    /\ cl.events_rx # <<>>
    /\ LET event == Head(cl.events_rx)
           current == IF event.kind = "SessionActive" /\ cl.current_session = None
                      THEN Some(event.session_id) ELSE cl.current_session
       IN  \E n \in 0..(MaxHandlerSends - cl.sends) :
              cl' = IF IsSome(current)
                    THEN [cl EXCEPT !.events_rx = Tail(@),
                                    !.current_session = current,
                                    !.pc = "handler",
                                    !.todo = n,
                                    !.calls = Append(@, [cb |-> event.kind,
                                                         handle |-> Unwrap(current),
                                                         event |-> event.session_id])]
                    ELSE [cl EXCEPT !.events_rx = Tail(@)]
    /\ UNCHANGED all_but_cl

\* session.rs:54-60: Session::send called in the handler, once the channel has room
ClHandlerSend ==
    /\ cl.pc = "handler"
    /\ cl.todo > 0
    /\ cl.out[Handle] < MailCap
    /\ cl' = [cl EXCEPT !.out[Handle] = @ + 1, !.todo = @ - 1, !.sends = @ + 1]
    /\ UNCHANGED all_but_cl

\* the handler returns to the event loop
ClHandlerReturn ==
    /\ cl.pc = "handler"
    /\ cl.todo = 0
    /\ cl' = [cl EXCEPT !.pc = "recv"]
    /\ UNCHANGED all_but_cl

\* client.rs:87: the routing task of a Session takes a payload
ClRoutingRecv(id) ==
    /\ ~cl.routing[id]
    /\ cl.out[id] > 0
    /\ cl' = [cl EXCEPT !.out[id] = @ - 1, !.routing[id] = TRUE]
    /\ UNCHANGED all_but_cl

\* client.rs:88-104: and sends it as a command, once the channel has room
ClRoutingSend(id) ==
    /\ cl.routing[id]
    /\ Len(cl.cmd) < MailCap
    /\ cl' = [cl EXCEPT !.routing[id] = FALSE, !.cmd = Append(@, id)]
    /\ UNCHANGED all_but_cl

\* gateway.rs:303-305: the per-client task takes a command
ClientTaskRecv ==
    /\ cl.client_task = None
    /\ cl.cmd # <<>>
    /\ cl' = [cl EXCEPT !.client_task = Some(Head(cl.cmd)), !.cmd = Tail(@)]
    /\ UNCHANGED all_but_cl

\* gateway.rs:569-584: and puts its payload into the session's inbox, once it has room
ClientTaskSend ==
    /\ IsSome(cl.client_task)
    /\ cl.inbox[Unwrap(cl.client_task)] < MailCap
    /\ cl' = [cl EXCEPT !.client_task = None, !.inbox[Unwrap(cl.client_task)] = @ + 1]
    /\ UNCHANGED all_but_cl

\* the peer of a session sends a frame
ClPeerSend(id) ==
    /\ id <= cl.next_session_id
    /\ cl.frames < MaxPeerFrames
    /\ cl' = [cl EXCEPT !.sock[id] = @ + 1, !.frames = @ + 1]
    /\ UNCHANGED all_but_cl

\* gateway.rs:391-411: the session task, at its select, takes a payload and writes it
ClSessionInbox(id) ==
    /\ cl.pending[id] = 0
    /\ cl.inbox[id] > 0
    /\ cl' = [cl EXCEPT !.inbox[id] = @ - 1, !.written[id] = @ + 1]
    /\ UNCHANGED all_but_cl

\* gateway.rs:413-424: at its select with an empty inbox, it reads the frames the
\* socket holds and enters the frame loop
ClSessionRead(id) ==
    /\ cl.pending[id] = 0
    /\ cl.inbox[id] = 0
    /\ cl.sock[id] > 0
    /\ cl' = [cl EXCEPT !.pending[id] = cl.sock[id], !.sock[id] = 0]
    /\ UNCHANGED all_but_cl

\* gateway.rs:491-495: in the frame loop, it sends the frame's InboundMessage to the
\* client's mailbox, once it has room
ClSessionEmit(id) ==
    /\ cl.pending[id] > 0
    /\ Len(cl.events_rx) < MailCap
    /\ cl' = [cl EXCEPT !.pending[id] = @ - 1,
                        !.events_rx = Append(@, [kind |-> "InboundMessage",
                                                 session_id |-> id])]
    /\ UNCHANGED all_but_cl

NextClient ==
    \/ ClInitiate
    \/ ClRun
    \/ ClDispatch
    \/ ClHandlerSend
    \/ ClHandlerReturn
    \/ \E id \in Handles : ClRoutingRecv(id)
    \/ \E id \in Handles : ClRoutingSend(id)
    \/ ClientTaskRecv
    \/ ClientTaskSend
    \/ \E id \in Handles : ClPeerSend(id)
    \/ \E id \in Handles : ClSessionInbox(id)
    \/ \E id \in Handles : ClSessionRead(id)
    \/ \E id \in Handles : ClSessionEmit(id)

SpecClient == InitClient /\ [][NextClient]_vars

Next ==
    \/ RegisterClient
    \/ Accept
    \/ \E c \in Clients : InitiateSession(c)
    \/ ClientSessionActive
    \/ SessionStart
    \/ SessionInbox
    \/ SessionRead
    \/ SessionTick
    \/ Submit
    \/ Routing
    \/ ClientCommand
    \/ PeerSend
    \/ PeerClose
    \/ PeerReset
    \/ Advance
    \/ WriterRecv
    \/ WriterTick

Spec == Init /\ [][Next]_vars


(***************************************************************************)
(* Events as the subscribers see them.                                     *)
(***************************************************************************)
\* the events client c received for the session
SessionEvents(c) == SelectSeq(events[c], LAMBDA e : e.session_id = session_id)

CountType(ev, t) == Cardinality({i \in DOMAIN ev : ev[i].type = t})

\* C1: for every subscriber the session's events are in causal order: a SessionActive
\* precedes every InboundMessage, and no SessionActive or InboundMessage follows a
\* Disconnected.
C1_CausalOrder ==
    \A c \in Clients :
        LET ev == SessionEvents(c)
        IN  \A i \in DOMAIN ev :
               /\ ev[i].type = "InboundMessage"
                     => \E j \in 1..(i - 1) : ev[j].type = "SessionActive"
               /\ ev[i].type = "Disconnected"
                     => \A j \in (i + 1)..Len(ev) :
                           ev[j].type \notin {"SessionActive", "InboundMessage"}

\* C2: no subscriber observes more than one SessionActive for the session, whatever
\* number of Logon messages the peer sends.
C2_OneSessionActive ==
    \A c \in Clients : CountType(SessionEvents(c), "SessionActive") <= 1

\* C3: at most one Disconnected is emitted per subscriber; once it has been emitted the
\* session task handles no further inbound frame and emits no further event (the only
\* event another task emits is SessionActive).
C3_OneDisconnected ==
    /\ \A c \in Clients : CountType(SessionEvents(c), "Disconnected") <= 1
    /\ \A c \in Clients :
          LET ev == SessionEvents(c)
          IN  \A i \in DOMAIN ev :
                 ev[i].type = "Disconnected"
                    => \A j \in (i + 1)..Len(ev) : ev[j].type = "SessionActive"
    /\ \A k \in DOMAIN rx_hist : \A c \in Clients :
          \A i \in 1..rx_hist[k].epos[c] : events[c][i].type # "Disconnected"

(***************************************************************************)
(* Inbound frames as the session task handled them (rx_hist).              *)
(***************************************************************************)
\* the k-th handled frame arrived on an active session: a Logon was accepted before it
\* and the frame loop was not left since
AcceptedLogon(h) == h.bytes.valid /\ h.bytes.t35 = "A" /\ ~h.brk
ActiveAt(k) ==
    \E j \in 1..(k - 1) :
        /\ AcceptedLogon(rx_hist[j])
        /\ \A i \in j..(k - 1) : ~rx_hist[i].brk

MsgSeqNum(h) == h.bytes.fields[34]
PossDup(h) == 43 \in DOMAIN h.bytes.fields /\ h.bytes.fields[43] = "Y"

\* C4: on an active session with in_seq = k, an inbound message with MsgSeqNum = k+g,
\* g >= 2, makes the next message written a ResendRequest with 7 = k+1 and 16 = k+g-1,
\* and in_seq is not advanced.
C4_GapResendRequest ==
    \A k \in DOMAIN rx_hist :
        LET h == rx_hist[k]
        IN  (h.bytes.valid /\ ActiveAt(k) /\ MsgSeqNum(h) >= h.pre_in + 2)
            => /\ h.post_in = h.pre_in
               /\ h.wend > h.wpos
               /\ wire[h.wpos + 1].t35 = "2"
               /\ get(wire[h.wpos + 1], 7) = Some(h.pre_in + 1)
               /\ get(wire[h.wpos + 1], 16) = Some(MsgSeqNum(h) - 1)

\* C5: on an active session, an inbound message with MsgSeqNum below in_seq + 1 and
\* without 43=Y makes the engine write a Logout and leave the session; it is not
\* delivered as an InboundMessage.
C5_LowSeqFatal ==
    \A k \in DOMAIN rx_hist :
        LET h == rx_hist[k]
        IN  (h.bytes.valid /\ ActiveAt(k) /\ MsgSeqNum(h) < h.pre_in + 1 /\ ~PossDup(h))
            => /\ h.brk
               /\ h.wend > h.wpos
               /\ wire[h.wpos + 1].t35 = "5"
               /\ \A c \in Clients : \A i \in (h.epos[c] + 1)..h.eend[c] :
                     events[c][i].type # "InboundMessage"

\* C6: a SequenceReset with 123=Y and 36 = n sets in_seq to n-1 when n > in_seq and
\* leaves in_seq unchanged when n <= in_seq.
C6_GapFill ==
    \A k \in DOMAIN rx_hist :
        LET h == rx_hist[k]
            n == h.bytes.fields[36]
        IN  (/\ h.bytes.valid /\ ActiveAt(k) /\ h.bytes.t35 = "4"
             /\ get(h.bytes, 123) = Some("Y") /\ 36 \in DOMAIN h.bytes.fields)
            => h.post_in = (IF n > h.pre_in THEN n - 1 ELSE h.pre_in)

\* the frames the engine stamped: not an application's raw frame, not a retransmission
EngineStamped(b) == b.t35 # "D" /\ 43 \notin DOMAIN b.fields

\* the stamped frame with MsgSeqNum s among the first upto frames written
Original(s, upto) ==
    wire[CHOOSE i \in 1..upto : EngineStamped(wire[i]) /\ get(wire[i], 34) = Some(s)]

\* r is o with 43=Y and a tag 122 added, and nothing else changed
IsResendOf(r, o) ==
    /\ r.t35 = o.t35
    /\ r.valid = o.valid
    /\ DOMAIN r.fields = DOMAIN o.fields \cup {43, 122}
    /\ r.fields[43] = "Y"
    /\ \A t \in DOMAIN o.fields : r.fields[t] = o.fields[t]

\* C7: a ResendRequest(7=b, 16=e) received after stamped messages 1..N were sent, with
\* b <= e <= N, is answered by exactly the messages b..e in ascending order, each with
\* 43=Y and a tag 122 and otherwise identical to the original.
C7_ResendRange ==
    \A k \in DOMAIN rx_hist :
        LET h == rx_hist[k]
            b == h.bytes.fields[7]
            e == h.bytes.fields[16]
            N == Len(SelectSeq(SubSeq(wire, 1, h.wpos), EngineStamped))
        IN  (/\ h.bytes.valid /\ h.bytes.t35 = "2"
             /\ 7 \in DOMAIN h.bytes.fields /\ 16 \in DOMAIN h.bytes.fields
             /\ 1 <= b /\ b <= e /\ e <= N)
            => /\ h.wend - h.wpos = e - b + 1
               /\ \A i \in 1..(e - b + 1) :
                     IsResendOf(wire[h.wpos + i], Original(b + i - 1, h.wpos))


(***************************************************************************)
(* Outbound order.                                                         *)
(***************************************************************************)
\* the frame without the MsgSeqNum the session task stamps
unstamped(b) ==
    [t35 |-> b.t35, fields |-> [t \in DOMAIN b.fields \ {34} |-> b.fields[t]],
     valid |-> b.valid]

\* what a submitted payload is on the wire, MsgSeqNum left out
wire_image(p) ==
    IF p.kind = "Raw" THEN unstamped(p.bytes)
    ELSE unstamped(encode(into_fix(p.msg, ConfigSender, ConfigTarget)))

\* a frame of the application written for the first time: its raw frame, or the
\* TestRequest it submitted
AppFrame(b) ==
    /\ 43 \notin DOMAIN b.fields
    /\ \/ b.t35 = "D"
       \/ b.t35 = "1" /\ 112 \in DOMAIN b.fields /\ b.fields[112][1] = "U"

Images(ps) == [i \in DOMAIN ps |-> wire_image(ps[i])]

Written ==
    LET w == SelectSeq(wire, AppFrame) IN [i \in DOMAIN w |-> unstamped(w[i])]

InFlight ==
    Images(app_out_rx)
       \o Images([i \in DOMAIN cmd_chan |-> forward_cmd(cmd_chan[i])])
       \o Images(sess_chan)

\* C8: the payloads submitted through the Session handle are written to the socket in
\* the order submitted: while the session task runs, what was written followed by what
\* is in the inbox, the command channel and the Session channel is what was submitted,
\* none reordered, duplicated or lost; once the task has ended, what was written is a
\* prefix of what was submitted.
C8_SubmissionOrder ==
    IF pc # "done"
    THEN Written \o InFlight = Images(submitted)
    ELSE IsPrefix(Written, Images(submitted))

\* C8 witness: raw and admin payloads were submitted in a mix and all are on the wire
C8_Witness ==
    /\ Len(submitted) >= 2
    /\ \E i, j \in DOMAIN submitted :
          submitted[i].kind = "Raw" /\ submitted[j].kind = "Admin"
    /\ Written = Images(submitted)

\* C9: the MsgSeqNum values of the frames the engine stamps, in the order written, are
\* 1, 2, 3, ...
C9_StampedSequence ==
    LET st == SelectSeq(wire, EngineStamped)
    IN  \A i \in DOMAIN st : get(st[i], 34) = Some(i)

\* C9 witness: a Logon, an admin payload of the application and a Heartbeat were
\* stamped, and a raw frame of the application was written as well
C9_Witness ==
    LET st == SelectSeq(wire, EngineStamped)
    IN  /\ Len(st) >= 3
        /\ \E i \in DOMAIN st : AppFrame(st[i])
        /\ \E i \in DOMAIN st : st[i].t35 = "0"
        /\ \E i \in DOMAIN wire : wire[i].t35 = "D"

(***************************************************************************)
(* The store.                                                              *)
(***************************************************************************)
\* the payloads of the outbound records of hist with seq = v, in append order
WithSeq(hist, v) ==
    LET recs == SelectSeq(hist, LAMBDA r : r.direction = "Outbound" /\ r.seq = Some(v))
    IN  [i \in DOMAIN recs |-> recs[i].payload]

\* the payloads of the outbound records with seq in [a, b], ascending by seq
RECURSIVE ExpectedRange(_, _, _)
ExpectedRange(hist, a, b) ==
    IF a > b THEN <<>> ELSE WithSeq(hist, a) \o ExpectedRange(hist, a + 1, b)

\* C10: after any sequence of appends, load_outbound_range(session, a, b) returns
\* exactly the payloads of the appended outbound records with seq in [a, b], in
\* ascending seq order, each identical to the payload appended.
C10_LoadReturnsAppended ==
    IsSome(loaded) =>
        Unwrap(loaded).out
            = ExpectedRange(appended, Unwrap(loaded).begin_seq, Unwrap(loaded).end_seq)


\* a stored record as the caller handed it to append
AsAppended(rec) ==
    [direction |-> rec.direction, seq |-> rec.seq, payload |-> b64_decode(rec.payload_b64)]

AsAppendedSeq(recs) == [i \in DOMAIN recs |-> AsAppended(recs[i])]

IndexedRecord(rec) == rec.direction = "Outbound" /\ IsSome(rec.seq)

SessionKeyOf ==
    IF role = "initiator" THEN sess_key
    ELSE [sender_comp_id |-> target_comp, target_comp_id |-> sender_comp]

\* C12: once a session has ended and the writer has flushed, last_outbound_seq for the
\* session's key is N, the number of messages the session sent with a MsgSeqNum of its own.
C12_LastOutboundSeq ==
    LET N == Len(SelectSeq(wire, EngineStamped))
    IN  (pc = "done" /\ N >= 1 /\ store_chan = <<>> /\ queue = <<>>)
            => last_outbound_seq(SessionKeyOf) = Some(N)


\* C13: for every message m, of any msg_type (Unknown(code) included) and any fields
\* without the tags 8, 9, 10 and 35, decode(encode(m)) succeeds and returns the msg_type
\* and the tag-to-value mapping of m.
C13_RoundTrip ==
    codec.pc = "decoded"
        => /\ codec.out.ok
           /\ codec.out.msg.msg_type = codec.m.msg_type
           /\ codec.out.msg.fields = codec.m.fields


\* C14: on the concatenation of valid frames f1..fn followed by a proper prefix of a
\* frame (empty or not), the calls of try_extract_one return f1, ..., fn in order and
\* then none, and the buffer is left holding the prefix, unchanged: empty after whole
\* frames, and untouched when it held only a proper prefix.
C14_Framing ==
    /\ codec.pc = "framing"
          => /\ IsPrefix(codec.out, codec.frames)
             /\ codec.buffer
                   = Concat(SubSeq(codec.frames, Len(codec.out) + 1, Len(codec.frames)))
                        \o codec.tail
    /\ codec.pc = "none"
          => /\ codec.out = codec.frames
             /\ codec.buffer = codec.tail

\* C14 witness: two frames, one of them with "8=" and "9=" inside its body and a
\* two-digit BodyLength, were extracted in order and the buffer is empty
C14_Witness ==
    /\ codec.pc = "none"
    /\ Len(codec.out) >= 2
    /\ codec.out[1] # codec.out[2]
    /\ \E i \in DOMAIN codec.out : Len(codec.out[i]) >= 30
    /\ codec.buffer = <<>>


\* the session has had no inbound traffic for three heartbeat intervals
IdleThreeIntervals == pc = "loop" /\ now - last_rx >= 3 * hb_interval

TimedOut ==
    /\ pc = "done"
    /\ \E c \in Clients : \E i \in DOMAIN events[c] :
          events[c][i].type = "Disconnected" /\ events[c][i].reason = "Timeout"

\* C15: a session that has received nothing for three heartbeat intervals eventually
\* emits Disconnected{Timeout} and terminates, whatever the application keeps submitting.
C15_TimeoutEventually == IdleThreeIntervals ~> TimedOut


\* what the session wrote since it last handled an inbound frame: its current idle period
SinceLastRx ==
    SubSeq(wire, (IF rx_hist = <<>> THEN 0 ELSE rx_hist[Len(rx_hist)].wend) + 1, Len(wire))

TimerHeartbeat(b) == b.t35 = "0" /\ 112 \notin DOMAIN b.fields
TimerTestRequest(b) == b.t35 = "1" /\ 112 \in DOMAIN b.fields /\ b.fields[112][1] = "TR"

\* C16: during one uninterrupted idle period the engine writes at most one Heartbeat
\* without tag 112 and at most one TestRequest TR-<n>, the Heartbeat first.
C16_IdleLadder ==
    LET w == SinceLastRx
    IN  /\ Len(SelectSeq(w, TimerHeartbeat)) <= 1
        /\ Len(SelectSeq(w, TimerTestRequest)) <= 1
        /\ \A i, j \in DOMAIN w : TimerHeartbeat(w[i]) /\ TimerTestRequest(w[j]) => i < j


\* the events the handling of frame h put into the mailbox of client c
EmittedFor(h, c) == SubSeq(events[c], h.epos[c] + 1, h.eend[c])

HasDisconnected(ev, reason) ==
    \E i \in DOMAIN ev : ev[i].type = "Disconnected" /\ ev[i].reason = reason

\* C17: when an inbound frame fails decoding, Disconnected{ProtocolError} is emitted to
\* the subscribers and from that point on no bytes are written to the socket.
C17_ProtocolErrorSilence ==
    \A k \in DOMAIN rx_hist :
        LET h == rx_hist[k]
        IN  ~h.bytes.valid
            => /\ \A c \in h.subs : HasDisconnected(EmittedFor(h, c), "ProtocolError")
               /\ Len(wire) = h.wpos

\* C18: when the peer sends Logout the engine writes exactly one Logout reply and emits
\* Disconnected{ApplicationRequested}; after the reply no further bytes are written.
C18_LogoutFinal ==
    \A k \in DOMAIN rx_hist :
        LET h == rx_hist[k]
        IN  (h.bytes.valid /\ h.bytes.t35 = "5")
            => /\ h.wend = h.wpos + 1
               /\ wire[h.wend].t35 = "5"
               /\ \A c \in h.subs :
                     HasDisconnected(EmittedFor(h, c), "ApplicationRequested")
               /\ Len(wire) = h.wend

\* C19: on an accepted connection, a Logon the authentication predicate refuses is
\* answered by a Logout with 58 = "Logon rejected" and no Logon, and no SessionActive
\* is emitted afterwards, whatever Logons the peer sends next.
C19_RejectedLogon ==
    \A k \in DOMAIN rx_hist :
        LET h == rx_hist[k]
        IN  (/\ role = "acceptor" /\ h.bytes.valid /\ h.bytes.t35 = "A"
             /\ ~validate_logon(h.bytes.fields[49], h.bytes.fields[56]))
            => /\ h.wend = h.wpos + 1
               /\ wire[h.wend].t35 = "5"
               /\ get(wire[h.wend], 58) = Some("Logon rejected")
               /\ \A c \in Clients : \A i \in (h.epos[c] + 1)..Len(events[c]) :
                     events[c][i].type # "SessionActive"

\* the events client c receives in a step
NewEvents(c) == SubSeq(events'[c], Len(events[c]) + 1, Len(events'[c]))

\* C20: every event of the session is delivered to every client registered when it is
\* emitted: in a step that delivers events to some client, every registered client
\* receives them.
C20_FanOut ==
    [][\A c \in Range(clients) : \A d \in Clients :
          NewEvents(d) # <<>> => NewEvents(c) = NewEvents(d)]_vars


(***************************************************************************)
(* Sequence numbers, retransmission and forwarding of handled frames.      *)
(***************************************************************************)
\* C25: on an active session, an inbound message with MsgSeqNum below in_seq + 1 that
\* carries 43=Y leaves in_seq unchanged and the session open.
C25_PossDupIdempotent ==
    \A k \in DOMAIN rx_hist :
        LET h == rx_hist[k]
        IN  (/\ h.bytes.valid /\ ActiveAt(k) /\ 34 \in DOMAIN h.bytes.fields
             /\ MsgSeqNum(h) < h.pre_in + 1 /\ PossDup(h))
            => /\ h.post_in = h.pre_in
               /\ ~h.brk

\* the session-level message types
AdminCodes == {"0", "1", "2", "4", "5", "A"}
GapFill(b) == b.t35 = "4" /\ get(b, 123) = Some("Y")

\* the stamped frames with MsgSeqNum s among the first upto frames written
StoredAt(s, upto) ==
    {i \in 1..upto : 43 \notin DOMAIN wire[i].fields /\ get(wire[i], 34) = Some(s)}

\* the sequence number s is to be skipped: nothing is stored for it, or what is stored
\* is a session-level message
Skipped(s, upto) == \A i \in StoredAt(s, upto) : wire[i].t35 \in AdminCodes

\* C26: in the answer to a ResendRequest for [b, e] on an active session, no
\* session-level message is retransmitted, and every sequence number of the range
\* that is skipped is covered by a SequenceReset with 123=Y whose 36 lies after it.
C26_GapFillOnResend ==
    \A k \in DOMAIN rx_hist :
        LET h == rx_hist[k]
            b == h.bytes.fields[7]
            e == h.bytes.fields[16]
        IN  (/\ h.bytes.valid /\ ActiveAt(k) /\ h.bytes.t35 = "2"
             /\ 7 \in DOMAIN h.bytes.fields /\ 16 \in DOMAIN h.bytes.fields
             /\ 1 <= b /\ b <= e)
            => /\ \A i \in (h.wpos + 1)..h.wend :
                     wire[i].t35 \in AdminCodes => GapFill(wire[i])
               /\ \A s \in b..e :
                     Skipped(s, h.wpos)
                     => \E i \in (h.wpos + 1)..h.wend :
                           /\ GapFill(wire[i])
                           /\ 36 \in DOMAIN wire[i].fields
                           /\ wire[i].fields[36] > s

\* the InboundMessage events among ev
InboundMessages(ev) == SelectSeq(ev, LAMBDA x : x.type = "InboundMessage")

\* C27: for every inbound message that decodes, admin messages included, exactly one
\* InboundMessage carrying its raw frame is emitted to the subscribers (rx_hist and
\* the mailboxes are both in receive order).
C27_OneInboundMessage ==
    \A k \in DOMAIN rx_hist :
        LET h == rx_hist[k]
        IN  h.bytes.valid
            => \A c \in h.subs :
                  LET im == InboundMessages(EmittedFor(h, c))
                  IN  Len(im) = 1 /\ im[1].payload = h.bytes

\* C28: a Heartbeat whose 112 equals test_req_outstanding clears it; a Heartbeat with
\* no 112 or another 112 leaves it unchanged.
C28_HeartbeatClears ==
    \A k \in DOMAIN rx_hist :
        LET h == rx_hist[k]
        IN  (h.bytes.valid /\ h.bytes.t35 = "0")
            => h.post_tr = (IF IsSome(h.pre_tr) /\ get(h.bytes, 112) = h.pre_tr
                            THEN None ELSE h.pre_tr)

\* C29: an inbound TestRequest is answered, before anything else is written and before
\* the next frame is handled, by one Heartbeat whose 112 equals the TestRequest's 112
\* and whose 34 is the out_seq at that moment.
C29_TestRequestReply ==
    \A k \in DOMAIN rx_hist :
        LET h == rx_hist[k]
        IN  (h.bytes.valid /\ h.bytes.t35 = "1")
            => /\ h.wend = h.wpos + 1
               /\ wire[h.wend].t35 = "0"
               /\ get(wire[h.wend], 112) = get(h.bytes, 112)
               /\ get(wire[h.wend], 34) = Some(h.pre_out)

\* a TestRequest carrying a TestReqID was handled after the session had written
\* other frames, so that the reply's 34 is not the initial out_seq
C29_Witness ==
    \E k \in DOMAIN rx_hist :
        /\ rx_hist[k].bytes.valid /\ rx_hist[k].bytes.t35 = "1"
        /\ 112 \in DOMAIN rx_hist[k].bytes.fields
        /\ rx_hist[k].wpos >= 1
        /\ rx_hist[k].pre_out >= 2


(***************************************************************************)
(* Liveness of the peer as the read path sees it.                          *)
(***************************************************************************)
\* C30: every successful read of at least one byte sets last_rx to the instant of the
\* read, reads of a part of a frame included, so that the timer branch acts on an idle
\* threshold only when no byte was read for a heartbeat interval at least.
C30_LastRxOnEveryRead ==
    /\ IsSome(rd.last_read) => rd.last_rx = Unwrap(rd.last_read)
    /\ \A i \in DOMAIN rd.timer : rd.timer[i].since_read >= rd.hb_interval


(***************************************************************************)
(* The gateway: routing by session id, session ids, spawn and Shutdown.    *)
(***************************************************************************)
\* C21: a Send or SendAdmin naming a live session, handled for any registered client,
\* is forwarded into that session's inbox, whoever created the session.
C21_SendReachesSession ==
    \A k \in DOMAIN gw.sends :
        LET e == gw.sends[k]
        IN  e.live
            => \E i \in SessionIndex(e.session_id) :
                  e.payload \in Range(gw.sessions[i].forwarded)

\* C22: the session ids drawn on accept and on a successful dial are positive, and each
\* is greater than the one drawn before it, so no two sessions share an id.
C22_SessionIdsIncrease ==
    /\ \A i \in DOMAIN gw.handed :
          /\ gw.handed[i] > 0
          /\ i > 1 => gw.handed[i] > gw.handed[i - 1]
    /\ \A i, j \in DOMAIN gw.sessions :
          i # j => gw.sessions[i].id # gw.sessions[j].id

\* ids were drawn by the accept loop and by a per-client task, and a session whose id
\* was drawn later was spawned before one whose id was drawn earlier
C22_Witness ==
    /\ \E i, j \in DOMAIN gw.sessions :
          /\ i < j
          /\ gw.sessions[i].id > gw.sessions[j].id
          /\ gw.sessions[i].kind # gw.sessions[j].kind
    /\ Len(gw.handed) = MaxSessions

\* C23: when the bind address cannot be bound, spawn returns no handle.
C23_BindFailureNoHandle == gw.bind_failed => ~gw.handle

\* C24: after the root task has processed Shutdown, no incoming connection is accepted:
\* no accepted session is spawned once Shutdown was processed.
C24_ShutdownStopsAccepting ==
    \A i \in DOMAIN gw.sessions :
        gw.sessions[i].kind = "accepted" => ~gw.sessions[i].after_shutdown


(***************************************************************************)
(* Session close, journal order, the first frame, and retransmission.      *)
(***************************************************************************)
\* C31: once a session has closed, neither the gateway's table nor any client's table
\* holds an inbox sender for its id.
C31_ClosedSessionRemoved ==
    \A i \in DOMAIN gw.sessions :
        gw.sessions[i].state = "closed"
        => /\ gw.sessions[i].id \notin gw.global_session_senders
           /\ \A c \in Clients : gw.sessions[i].id \notin gw.session_senders[c]

\* the records handed to the store by the session, in the order of the appends
Journal == data_file[file_stem(sess_key)] \o queue \o store_chan
JournalOf(direction) ==
    LET recs == SelectSeq(Journal, LAMBDA rec : rec.direction = direction)
    IN  [i \in DOMAIN recs |-> b64_decode(recs[i].payload_b64)]

\* the frames received: those the frame loop has taken and decoded
Received ==
    LET ok == SelectSeq(rx_hist, LAMBDA h : h.bytes.valid)
    IN  [i \in DOMAIN ok |-> ok[i].bytes]

\* C33: on every session the outbound records appended to the store are the frames
\* written to the socket, and the inbound records are the frames received, in order.
C33_JournalMirrorsNetwork ==
    role # "none"
    => /\ JournalOf("Outbound") = wire
       /\ JournalOf("Inbound") = Received

\* C35: on an initiated session the first frame written is the Logon with 49 = sender,
\* 56 = target, 34 = 1 and 108 = the configured heartbeat interval, whatever the
\* application submits and whatever the timer does.
C35_LogonFirst ==
    (role = "initiator" /\ wire # <<>>)
    => /\ wire[1].t35 = "A"
       /\ get(wire[1], 49) = Some(ConfigSender)
       /\ get(wire[1], 56) = Some(ConfigTarget)
       /\ get(wire[1], 34) = Some(1)
       /\ get(wire[1], 108) = Some(ConfigHbSecs)

\* an initiated session has written its Logon and then a payload the application
\* submitted
C35_Witness ==
    /\ role = "initiator"
    /\ Len(wire) >= 2
    /\ \E i \in 2..Len(wire) : AppFrame(wire[i])

\* C39: serving a ResendRequest leaves out_seq unchanged and appends no outbound record
\* to the store, and each frame retransmitted is an earlier frame with 43=Y and 122
\* added, its MsgSeqNum unchanged.
C39_ResendKeepsSequence ==
    \A k \in DOMAIN rx_hist :
        LET h == rx_hist[k]
        IN  (h.bytes.valid /\ h.bytes.t35 = "2")
            => /\ h.post_out = h.pre_out
               /\ h.jn_out = 0
               /\ \A j \in (h.wpos + 1)..h.wend :
                     \E i \in 1..h.wpos :
                        /\ IsResendOf(wire[j], wire[i])
                        /\ get(wire[j], 34) = get(wire[i], 34)

\* a ResendRequest was served with at least one retransmitted frame
C39_Witness ==
    \E k \in DOMAIN rx_hist :
        /\ rx_hist[k].bytes.valid /\ rx_hist[k].bytes.t35 = "2"
        /\ rx_hist[k].wend > rx_hist[k].wpos

\* some tag occurs in two fields of the buffer
HasDuplicateTag(buf) ==
    \E i, j \in DOMAIN buf : i < j /\ buf[i][1] = buf[j][1]

\* C34: decode answers an error for every SOH-terminated buffer in which a tag occurs
\* more than once.
C34_DuplicateTagRejected ==
    (codec.pc = "raw_decoded" /\ HasDuplicateTag(codec.buf)) => ~codec.out.ok

(***************************************************************************)
(* The journal's index, its keys and its connections.                      *)
(***************************************************************************)
\* the byte at which the i-th line of a data file starts
LineStart(lines, i) == file_len(SubSeq(lines, 1, i - 1))

\* C32: for every outbound record with a sequence number in a data file, the index
\* holds exactly one entry for its line, and the entry carries its sequence number and
\* the byte offset at which the line starts, I/O errors of the flush included.
C32_IndexMatchesData ==
    \A st \in Stems : \A i \in DOMAIN data_file[st] :
        LET rec == data_file[st][i]
            at == {j \in DOMAIN idx_file[st] : idx_file[st][j][2] = LineStart(data_file[st], i)}
        IN  (rec.direction = "Outbound" /\ IsSome(rec.seq))
            => /\ Cardinality(at) = 1
               /\ \A j \in at : idx_file[st][j][1] = Unwrap(rec.seq)

\* the sequence numbers journaled under key k
LoggedSeqs(k) == {jn.log[i].seq : i \in {i \in DOMAIN jn.log : jn.log[i].key = k}}

\* C37: what load_outbound_range and last_outbound_seq answer for a key comes from the
\* appends made under that key alone: appends under another key never show in them.
C37_JournalsIsolated ==
    \A k \in JournalKeys :
        /\ \A i \in DOMAIN load_outbound_range(k, 1, MaxSeq) :
              /\ get(load_outbound_range(k, 1, MaxSeq)[i], 49) = Some(k.sender_comp_id)
              /\ get(load_outbound_range(k, 1, MaxSeq)[i], 56) = Some(k.target_comp_id)
        /\ last_outbound_seq(k) \in {None} \cup {Some(n) : n \in LoggedSeqs(k)}

\* the keys whose files no other key of the store shares
OwnStem(k) == \A k2 \in JournalKeys : file_stem(k2) = file_stem(k) => k2 = k

\* C38: the index of a key that has its files to itself never holds two entries with
\* the same sequence number, whatever the number of connections made with the key.
C38_IndexSeqUnique ==
    \A k \in JournalKeys :
        OwnStem(k)
        => \A i, j \in DOMAIN idx_file[file_stem(k)] :
              i # j => idx_file[file_stem(k)][i][1] # idx_file[file_stem(k)][j][1]

(***************************************************************************)
(* The client library: the chain of channels and the handler's Session.    *)
(***************************************************************************)
\* the four tasks of session id wait for each other: the handler for room in the
\* Session's channel, the routing task for room in the command channel, the per-client
\* task for room in the session's inbox, the session task for room in the mailbox
Blocked(id) ==
    /\ cl.pc = "handler" /\ cl.todo > 0 /\ Handle = id /\ cl.out[id] = MailCap
    /\ cl.routing[id] /\ Len(cl.cmd) = MailCap
    /\ cl.client_task = Some(id) /\ cl.inbox[id] = MailCap
    /\ cl.pending[id] > 0 /\ Len(cl.events_rx) = MailCap

\* C36: no state is reached in which the handler, the routing task, the per-client
\* task and the session task of a session all wait on a full channel of the chain.
C36_NoChannelDeadlock ==
    cl.pc # "idle" => \A id \in Handles : ~Blocked(id)

\* C40: every callback the event loop makes gets the Session whose id is the
\* session_id of the event it dispatches.
C40_HandlerGetsEventSession ==
    cl.pc # "idle" => \A i \in DOMAIN cl.calls : cl.calls[i].handle = cl.calls[i].event

=============================================================================
